---- MODULE Spec2Model ----
(***************************************************************************)
(* Solver integration layer of mdo_algorithm: the AVL batch service        *)
(* (services/avl/main.py), the AVL geometry document serializer            *)
(* (models/avl/main.py) and the XFOIL interactive session                  *)
(* (services/xfoil/main.py).                                               *)
(*                                                                         *)
(* The specifications of the module:                                       *)
(*   Spec            one caller driving AvlService in one working directory *)
(*   SpecToAvl       GeometryInput.to_avl applied to bounded documents      *)
(*   SpecXfoil       one XfoilService session                               *)
(*   SpecDriver      __send_command and run_avl against their solvers       *)
(*   SpecExtract     the total-forces pattern on synthetic results files    *)
(*   SpecStrip       the strip-forces parse on synthetic reports            *)
(*   SpecConcurrent  two batch calls in flight in one working directory     *)
(*   SpecChord       Wing.chord_distribution                                *)
(*   SpecPlanform    the planform queries and the header of from_wing       *)
(*   SpecBlocks      the keyword blocks of the rendered geometry document   *)
(*   SpecNumbers     the numeric fields of the geometry and mass documents  *)
(*   SpecSweep       the script of get_wing_coefficients for a tuple alpha  *)
(***************************************************************************)
EXTENDS Integers, Sequences, FiniteSets, TLC

\* ------------------------------------------------------------------ bounds
MaxAngles == 2
MaxCalls == 2

\* Angles of attack 0, 5, 10, ... degrees
Angles == {5 * i : i \in 0..(MaxAngles - 1)}
BankAngles == {0}

\* An optional value: None is the empty tuple, a present value a 1-tuple.
None == <<>>
Some(v) == <<v>>

VARIABLES
    \* --- AvlService and its working directory
    pc,         \* position of the caller inside the current call ("idle" between calls)
    op,         \* the method being executed: "coefficients", "distribution", "run_avl"
    wing,       \* the wing argument of the current call
    alpha,      \* the alpha argument (list of angles)
    commands,   \* the command script built by the call
    geoFile,    \* input.avl: "absent", "empty" (opened for writing, nothing written) or "complete"
    massFile,   \* input.mass: likewise
    resFile,    \* result.txt: [exists, ft, fs]
    proc,       \* the solver process of the current call: "none", "running", "exited"
    exitStatus, \* how that process exited: "none", "normal", "abnormal"
    content,    \* what the call read from result.txt
    data,       \* the rows extracted from content
    outcome,    \* how the last call ended: [status, error, at]
    table,      \* the table the last call returned
    calls,      \* number of calls started so far
    spawned,    \* solver processes spawned by the current call
    solverWrote,\* the solver of the current call wrote to result.txt
    touched,    \* scratch files the current call created or truncated
    raised,     \* some call of this caller has ended by raising
    \* --- GeometryInput.to_avl
    doc,        \* the document: [cdp, surface_array, body_array]
    fileArg,    \* the file argument: "file" or "None"
    fileBuf,    \* what has been written to the file object
    docOutcome, \* [status, error, value]
    \* --- XfoilService
    xfReynolds, xfIterations, xfAlpha, \* constructor arguments
    xfFirst,    \* __first_analysis
    xfSent,     \* per call, the commands written to the solver process
    xfResults,  \* how the calls so far ended
    xfFile,     \* the XFOIL result.txt exists
    xfAlive,    \* the service object is still referenced by its client
    \* --- XfoilService.__send_command and the pseudo-terminal of the solver process
    sndPc,      \* "idle", or "reading" inside the while loop of __send_command
    sndCount,   \* commands written to the solver process so far
    sndOutput,  \* the local `output`: what the current call has read since its write
    sndLog,     \* per returned __send_command: [cmd, out]
    pty,        \* output the solver has emitted and the driver has not read yet
    started,    \* the solver process has printed its start-up text
    answered,   \* number of commands the solver has answered
    \* --- the regex extraction applied to a synthetic results file
    exBlocks,   \* the blocks of the file: per block [a, filler]
    exRows,     \* the rows extracted
    exDone,     \* the extraction has run
    \* --- the strip-forces parse applied to a synthetic report
    stReport,   \* the report: which parts it has, and the rows of its two tables
    stOutcome,  \* [status, error, table, bounds]
    \* --- two batch calls in flight in one working directory
    cPc,        \* per caller, its position in get_wing_coefficients
    cFs,        \* per scratch path, the file: [exists, tags]
    cGeo,       \* per caller, whose geometry its solver process loaded (0: none yet)
    cRead,      \* per caller, the content it read from the results file
    cOut,       \* per caller, "none", "returned" or the error it raised
    \* --- Wing.chord_distribution
    wSections,  \* wing.section_array: per section [y, chord]
    wY,         \* the argument y
    wResult,    \* <<>> before the call, <<value>> after it
    \* --- the planform queries of a wing and the header built from it
    pSections,  \* the sections of the wing: per section [x, y, chord]
    pArea,      \* how planform_area() ended: [status, error, value]
    pMean,      \* how mean_geometric_chord() ended
    pAvl,       \* how Wing.to_avl() ended
    pHeader,    \* <<>> before GeometryInput.from_wing, <<header>> after it
    \* --- the keyword blocks of a rendered geometry document
    rDoc,       \* the document: [header, surface_array, body_array]
    rText,      \* <<>> before to_avl(), the keyword lines of the text after it
    \* --- the numeric fields of the geometry and mass documents
    nSupplied,  \* the values supplied, per kind of field: [type, mag], or None
    nFields,    \* <<>> before rendering; after it, per field, the form of its text
    \* --- the script of get_wing_coefficients for alpha given as a tuple
    aTuple,     \* alpha: [start, end, inc], in halves of a degree
    aCommands   \* <<>> before the script is built, the script after it

avlVars == <<pc, op, wing, alpha, commands, geoFile, massFile, resFile, proc, exitStatus,
             content, data, outcome, table, calls, spawned, solverWrote, touched, raised>>
docVars == <<doc, fileArg, fileBuf, docOutcome>>
xfVars == <<xfReynolds, xfIterations, xfAlpha, xfFirst, xfSent, xfResults, xfFile,
           xfAlive>>
sndVars == <<sndPc, sndCount, sndOutput, sndLog, pty, started, answered>>
exVars == <<exBlocks, exRows, exDone>>
stVars == <<stReport, stOutcome>>
cVars == <<cPc, cFs, cGeo, cRead, cOut>>
wVars == <<wSections, wY, wResult>>
pVars == <<pSections, pArea, pMean, pAvl, pHeader>>
rVars == <<rDoc, rText>>
nVars == <<nSupplied, nFields>>
aVars == <<aTuple, aCommands>>
fnVars == <<pVars, rVars, nVars, aVars>>
restVars == <<sndVars, exVars, stVars, cVars, wVars, fnVars>>
vars == <<avlVars, docVars, xfVars, restVars>>

\* ======================================================================
\* AvlService
\* ======================================================================

\* A command line of a script: its text up to the numeric argument, and the argument.
Cmd(c) == [c |-> c, a |-> None]
CmdArg(c, v) == [c |-> c, a |-> Some(v)]

\* The wing argument, reduced to what the batch calls branch on.
\*   nSections / nTables  len(wing.section_array) and len(xfoil_coefficients_array)
\*   angleOk              every section's incremental_angle is a number (float() accepts it)
\*   mass                 wing.mass_properties: a MassProperties ("ok"), None, or no such attribute
Wings == [nSections : {2}, nTables : {1, 2}, angleOk : BOOLEAN,
          mass : {"ok", "None", "missing"}]

\* The alpha argument as a list: the angles in ascending or in descending order, for
\* every length up to MaxAngles (the empty list included).
Ascending(n) == [i \in 1..n |-> 5 * (i - 1)]
Descending(n) == [i \in 1..n |-> 5 * (n - i)]
AlphaLists == {Ascending(n) : n \in 0..MaxAngles} \cup {Descending(n) : n \in 0..MaxAngles}

NoResult == [exists |-> FALSE, ft |-> <<>>, fs |-> "none"]
NoOutcome == [status |-> "none", error |-> "", at |-> ""]

\* ---------------------------------------------------------------- script
\* A sweep loop that never issues the extra 'A'.
RECURSIVE SweepCommandsNoAppend(_, _)
SweepCommandsNoAppend(angles, append) ==
    IF angles = <<>> THEN <<>>
    ELSE <<CmdArg("A A", Head(angles)), Cmd("X"), Cmd("FT result.txt")>>
         \o SweepCommandsNoAppend(Tail(angles), TRUE)

\* get_wing_coefficients, lines 102-111
RECURSIVE SweepCommands(_, _)
SweepCommands(angles, append) ==
    IF angles = <<>> THEN <<>>
    ELSE <<CmdArg("A A", Head(angles)), Cmd("X"), Cmd("FT result.txt")>>
         \o (IF append THEN <<Cmd("A")>> ELSE <<>>)
         \o SweepCommands(Tail(angles), TRUE)

CoefficientCommands(angles) ==
    <<Cmd("OPER")>> \o SweepCommands(angles, FALSE) \o <<Cmd(""), Cmd("QUIT")>>

\* A distribution script that also asks for the total-forces report.
DistributionCommandsTwoReports(a, bank) ==
    <<Cmd("OPER"), CmdArg("A A", a), Cmd("X"), Cmd("C1"), CmdArg("B", bank), Cmd(""),
      Cmd("X"), Cmd("FT result.txt"), Cmd("FS result.txt"), Cmd(""), Cmd("QUIT")>>

\* get_wing_lift_coefficient_distribution, lines 180-191
DistributionCommands(a, bank) ==
    <<Cmd("OPER"), CmdArg("A A", a), Cmd("X"), Cmd("C1"), CmdArg("B", bank), Cmd(""),
      Cmd("X"), Cmd("FS result.txt"), Cmd(""), Cmd("QUIT")>>

\* Scripts a caller of run_avl passes in directly.
DirectScripts == {<<Cmd("OPER"), Cmd("X"), Cmd(""), Cmd("QUIT")>>}

\* ---------------------------------------------------------------- solver
\* The total-forces report AVL writes for one FT command is a block of fields.  A field
\* is kept as a token: its name, whether its number converts ("num") or only looks like
\* one to the pattern [-0-9.]+ ("bad", e.g. "-" or "1.2.3"), and the block it belongs to
\* (whether the solver process of the current call wrote it, its index in that run's
\* output, the angle of attack of the block).
\* A field the pattern cannot match (absent, "NaN", "*****") yields no token.
Fields == <<"Alpha", "CLtot", "CDtot", "Cmtot">>
\* A run writes well-formed blocks, except that the last block it writes may hold a
\* lift field that is no number ("badnum") or may stop after the lift field
\* ("truncated").
BlockShapes == {"ok", "badnum", "truncated"}

Token(f, txt, i, a) == [f |-> f, txt |-> txt, fresh |-> TRUE, blk |-> i, alpha |-> a]

Block(shape, i, a) ==
    CASE shape = "ok" ->
           [j \in 1..4 |-> Token(Fields[j], "num", i, a)]
      [] shape = "badnum" ->
           [j \in 1..4 |-> Token(Fields[j], IF j = 2 THEN "bad" ELSE "num", i, a)]
      [] shape = "truncated" ->
           [j \in 1..2 |-> Token(Fields[j], "num", i, a)]

\* When a new call starts, what result.txt holds was written by an earlier call.
Aged(f) == [f EXCEPT !.ft = [i \in DOMAIN f.ft |-> [f.ft[i] EXCEPT !.fresh = FALSE]]]

\* The strip-forces report AVL writes for the FS command.
FsShapes == {"none", "tables", "truncated"}

\* The angle of attack in effect at each FT command of a script.
RECURSIVE ScriptAngles(_, _)
ScriptAngles(cmds, cur) ==
    IF cmds = <<>> THEN <<>>
    ELSE LET h == Head(cmds) IN
         IF h.c = "A A" THEN ScriptAngles(Tail(cmds), h.a)
         ELSE IF h.c = "FT result.txt" /\ cur # None
              THEN <<cur[1]>> \o ScriptAngles(Tail(cmds), cur)
              ELSE ScriptAngles(Tail(cmds), cur)

HasCommand(cmds, c) == \E i \in 1..Len(cmds) : cmds[i].c = c

\* k blocks for the first k angles, the last of them of shape `last`.
RECURSIVE Blocks(_, _, _, _)
Blocks(k, last, angles, i) ==
    IF i > k THEN <<>>
    ELSE Block(IF i = k THEN last ELSE "ok", i, angles[i]) \o Blocks(k, last, angles, i + 1)

\* ---------------------------------------------------------------- parser
\* re.findall of the four-field pattern (lines 115-121, 125): from the first Alpha token
\* on, the nearest following CLtot, then the nearest following CDtot, then the nearest
\* following Cmtot (non-greedy, DOTALL); the search resumes after the match.
RECURSIVE NextField(_, _, _)
NextField(toks, f, i) ==
    IF i = 0 \/ i > Len(toks) THEN 0
    ELSE IF toks[i].f = f THEN i ELSE NextField(toks, f, i + 1)

After(i) == IF i = 0 THEN 0 ELSE i + 1

\* The last token with the given field name, 0 when there is none.
LastField(toks, f) ==
    LET at == {j \in 1..Len(toks) : toks[j].f = f}
    IN IF at = {} THEN 0 ELSE CHOOSE j \in at : \A q \in at : q <= j

\* A pattern with greedy gaps: the first Alpha, then the last of each other field.
FindAllGreedy(toks, i) ==
    LET ia == NextField(toks, "Alpha", i)
        il == LastField(toks, "CLtot")
        id == LastField(toks, "CDtot")
        im == LastField(toks, "Cmtot")
    IN IF ia = 0 \/ il = 0 \/ id = 0 \/ im = 0 THEN <<>>
       ELSE <<[alpha |-> toks[ia], lift_coefficient |-> toks[il],
               drag_coefficient |-> toks[id], moment_coefficient |-> toks[im]]>>

RECURSIVE FindAll(_, _)
FindAll(toks, i) ==
    LET ia == NextField(toks, "Alpha", i)
        il == NextField(toks, "CLtot", After(ia))
        id == NextField(toks, "CDtot", After(il))
        im == NextField(toks, "Cmtot", After(id))
    IN IF im = 0 THEN <<>>
       ELSE <<[alpha |-> toks[ia], lift_coefficient |-> toks[il],
               drag_coefficient |-> toks[id], moment_coefficient |-> toks[im]]>>
            \o FindAll(toks, im + 1)

\* pd.Series(array, dtype=float) (line 123) raises when a captured text is no number.
ConversionFails(rows) ==
    \E k \in 1..Len(rows) :
        \/ rows[k].alpha.txt = "bad"
        \/ rows[k].lift_coefficient.txt = "bad"
        \/ rows[k].drag_coefficient.txt = "bad"
        \/ rows[k].moment_coefficient.txt = "bad"

\* DataFrame[Coefficients](pd.DataFrame(data)) (line 131): with no match data is {} and
\* the frame lacks every schema column.
SchemaFails(rows) == rows = <<>>

\* ---------------------------------------------------------------- calls
Raise(err) ==
    /\ pc' = "idle"
    /\ outcome' = [status |-> "raised", error |-> err, at |-> pc]
    /\ raised' = TRUE

Return(rows) ==
    /\ pc' = "idle"
    /\ outcome' = [status |-> "returned", error |-> "", at |-> pc]
    /\ table' = rows
    /\ UNCHANGED raised

\* What every call resets on entry.
Enter(name) ==
    /\ pc = "idle"
    /\ calls < MaxCalls
    /\ calls' = calls + 1
    /\ op' = name
    /\ outcome' = NoOutcome
    /\ table' = <<>>
    /\ proc' = "none"
    /\ exitStatus' = "none"
    /\ content' = NoResult
    /\ data' = <<>>
    /\ spawned' = 0
    /\ solverWrote' = FALSE
    /\ touched' = {}
    /\ resFile' = Aged(resFile)
    /\ UNCHANGED raised

\* get_wing_coefficients is entered (line 85 is next).
GetWingCoefficients ==
    /\ Enter("coefficients")
    /\ \E w \in Wings, a \in AlphaLists : wing' = w /\ alpha' = a
    /\ pc' = "from_wing"
    /\ commands' = <<>>
    /\ UNCHANGED <<geoFile, massFile>>

\* get_wing_lift_coefficient_distribution is entered (line 163 is next).
GetWingLiftCoefficientDistribution ==
    /\ Enter("distribution")
    /\ \E w \in Wings, a \in Angles : wing' = w /\ alpha' = <<a>>
    /\ pc' = "from_wing"
    /\ commands' = <<>>
    /\ UNCHANGED <<geoFile, massFile>>

\* run_avl called by a client with its own script.
RunAvlDirect ==
    /\ Enter("run_avl")
    /\ \E cmds \in DirectScripts : commands' = cmds
    /\ pc' = "run_avl"
    /\ UNCHANGED <<wing, alpha, geoFile, massFile>>

\* GeometryInput.from_wing (models/avl/main.py 726-731): the section count must equal
\* the number of 2-D tables.
FromWingRaises(w) == w.nSections # w.nTables

GeometryFromWing ==
    /\ pc = "from_wing"
    /\ IF FromWingRaises(wing)
       THEN Raise("ValueError")
       ELSE pc' = "write_geometry" /\ UNCHANGED <<outcome, raised>>
    /\ UNCHANGED <<op, wing, alpha, commands, geoFile, massFile, resFile, proc, exitStatus,
                   content, data, table, calls, spawned, solverWrote, touched>>

\* Section.to_input_file (models/avl/main.py 324-328) applies float() to every field.
ToAvlRaises(w) == ~w.angleOk

\* with open(input.avl, "w") as f: geometry_input.to_avl(f)   (lines 86-89, 164-167)
\* open() creates or truncates the file before to_avl renders anything.
WriteGeometry ==
    /\ pc = "write_geometry"
    /\ touched' = touched \cup {"geo"}
    /\ IF ToAvlRaises(wing)
       THEN geoFile' = "empty" /\ Raise("TypeError")
       ELSE geoFile' = "complete" /\ pc' = "mass_from_wing" /\ UNCHANGED <<outcome, raised>>
    /\ UNCHANGED <<op, wing, alpha, commands, massFile, resFile, proc, exitStatus,
                   content, data, table, calls, spawned, solverWrote>>

\* MassInput.from_wing (models/avl/main.py 883-890) reads wing.mass_properties.
MassFromWingRaises(w) == w.mass = "missing"

MassFromWing ==
    /\ pc = "mass_from_wing"
    /\ IF MassFromWingRaises(wing)
       THEN Raise("AttributeError")
       ELSE pc' = "write_mass" /\ UNCHANGED <<outcome, raised>>
    /\ UNCHANGED <<op, wing, alpha, commands, geoFile, massFile, resFile, proc, exitStatus,
                   content, data, table, calls, spawned, solverWrote, touched>>

\* MassInput.to_mass (models/avl/main.py 936-950) reads mass.mass of every entry.
ToMassRaises(w) == w.mass = "None"

\* with open(input.mass, "w") as f: mass_input.to_mass(f)   (lines 98-101, 176-179)
WriteMass ==
    /\ pc = "write_mass"
    /\ touched' = touched \cup {"mass"}
    /\ IF ToMassRaises(wing)
       THEN massFile' = "empty" /\ Raise("AttributeError")
       ELSE massFile' = "complete" /\ pc' = "build_commands" /\ UNCHANGED <<outcome, raised>>
    /\ UNCHANGED <<op, wing, alpha, commands, geoFile, resFile, proc, exitStatus,
                   content, data, table, calls, spawned, solverWrote>>

\* lines 102-111 and 180-191
BuildCommands ==
    /\ pc = "build_commands"
    /\ \/ /\ op = "coefficients"
          /\ commands' = CoefficientCommands(alpha)
       \/ /\ op = "distribution"
          /\ \E b \in BankAngles : commands' = DistributionCommands(alpha[1], b)
    /\ pc' = "run_avl"
    /\ UNCHANGED <<op, wing, alpha, geoFile, massFile, resFile, proc, exitStatus,
                   content, data, outcome, table, calls, spawned, solverWrote, touched,
                   raised>>

\* ---------------------------------------------------------------- run_avl
\* A client that calls run_avl itself first puts its own input.avl in place.
ClientPutsGeometry ==
    /\ pc = "idle"
    /\ geoFile = "absent"
    /\ geoFile' = "complete"
    /\ UNCHANGED <<pc, op, wing, alpha, commands, massFile, resFile, proc, exitStatus,
                   content, data, outcome, table, calls, spawned, solverWrote, touched,
                   raised>>

\* A run_avl without the existence check.
GeometryFileAssumed == TRUE

\* line 46: os.path.exists(input.avl)
GeometryFileExists == geoFile # "absent"

\* run_avl, lines 46-54: the existence check, then subprocess.Popen.  Popen itself
\* raises OSError when the executable cannot be started.
RunAvl ==
    /\ pc = "run_avl"
    /\ IF ~GeometryFileExists
       THEN Raise("FileNotFoundError") /\ UNCHANGED <<proc, spawned>>
       ELSE \/ /\ proc' = "running"
               /\ spawned' = spawned + 1
               /\ pc' = "communicate"
               /\ UNCHANGED <<outcome, raised>>
            \/ Raise("OSError") /\ UNCHANGED <<proc, spawned>>
    /\ UNCHANGED <<op, wing, alpha, commands, geoFile, massFile, resFile, exitStatus,
                   content, data, table, calls, solverWrote, touched>>

\* What the solver leaves in result.txt: `k` total-forces blocks for the first k FT
\* commands and the strip-forces report `fs`, appended to or replacing an older file.
SolverOutput(old, k, last, fs, mode) ==
    LET ft == Blocks(k, last, ScriptAngles(commands, None), 1)
        wrote == k > 0 \/ fs # "none"
    IN IF ~wrote THEN old
       ELSE IF old.exists /\ mode = "append"
            THEN [exists |-> TRUE, ft |-> old.ft \o ft,
                  fs |-> IF fs # "none" THEN fs ELSE old.fs]
            ELSE [exists |-> TRUE, ft |-> ft, fs |-> fs]

\* A driver that hands over the script and goes on without waiting for the exit.
CommunicateNoWait ==
    /\ pc = "communicate"
    /\ proc = "running"
    /\ \E status \in {"normal", "abnormal"},
          k \in 0..Len(ScriptAngles(commands, None)),
          fs \in (IF HasCommand(commands, "FS result.txt") THEN FsShapes ELSE {"none"}),
          mode \in (IF resFile.exists THEN {"append", "overwrite"} ELSE {"overwrite"}) :
         \E last \in (IF k = 0 THEN {"ok"} ELSE BlockShapes) :
            /\ resFile' = SolverOutput(resFile, k, last, fs, mode)
            /\ solverWrote' = (k > 0 \/ fs # "none")
            /\ touched' = IF k > 0 \/ fs # "none" THEN touched \cup {"res"} ELSE touched
            /\ exitStatus' = exitStatus
            /\ proc' = proc
            /\ IF op = "run_avl"
               THEN Return(<<>>)
               ELSE pc' = "read_results" /\ UNCHANGED <<outcome, table, raised>>
    /\ UNCHANGED <<op, wing, alpha, commands, geoFile, massFile, content, data, calls,
                   spawned>>

\* avl_process.communicate(script), line 55: the solver reads the whole script, runs it
\* and exits; run_avl returns to its caller without looking at the return code or at
\* the captured stderr.
Communicate ==
    /\ pc = "communicate"
    /\ proc = "running"
    /\ \E status \in {"normal", "abnormal"},
          k \in 0..Len(ScriptAngles(commands, None)),
          fs \in (IF HasCommand(commands, "FS result.txt") THEN FsShapes ELSE {"none"}),
          mode \in (IF resFile.exists THEN {"append", "overwrite"} ELSE {"overwrite"}) :
         \E last \in (IF k = 0 THEN {"ok"} ELSE BlockShapes) :
            /\ resFile' = SolverOutput(resFile, k, last, fs, mode)
            /\ solverWrote' = (k > 0 \/ fs # "none")
            /\ touched' = IF k > 0 \/ fs # "none" THEN touched \cup {"res"} ELSE touched
            /\ exitStatus' = status
            /\ proc' = "exited"
            /\ IF op = "run_avl"
               THEN Return(<<>>)
               ELSE pc' = "read_results" /\ UNCHANGED <<outcome, table, raised>>
    /\ UNCHANGED <<op, wing, alpha, commands, geoFile, massFile, content, data, calls,
                   spawned>>

\* lines 113-114 and 193-194: open(result.txt, "r") raises when the file is missing.
ReadMissing(f) == IF f.exists THEN "" ELSE "FileNotFoundError"

\* A read that answers a missing results file with an empty table.
ReadResultsSilent ==
    /\ pc = "read_results"
    /\ IF ReadMissing(resFile) # ""
       THEN Return(<<>>) /\ UNCHANGED content
       ELSE /\ content' = resFile
            /\ pc' = IF op = "coefficients" THEN "extract" ELSE "remove"
            /\ UNCHANGED <<outcome, raised, table>>
    /\ UNCHANGED <<op, wing, alpha, commands, geoFile, massFile, resFile, proc, exitStatus,
                   data, calls, spawned, solverWrote, touched>>

ReadResults ==
    /\ pc = "read_results"
    /\ IF ReadMissing(resFile) # ""
       THEN Raise(ReadMissing(resFile)) /\ UNCHANGED content
       ELSE /\ content' = resFile
            /\ pc' = IF op = "coefficients" THEN "extract" ELSE "remove"
            /\ UNCHANGED <<outcome, raised>>
    /\ UNCHANGED <<op, wing, alpha, commands, geoFile, massFile, resFile, proc, exitStatus,
                   data, table, calls, spawned, solverWrote, touched>>

\* lines 115-127: findall, then one float Series per column.
Extract ==
    /\ pc = "extract"
    /\ LET rows == FindAll(content.ft, 1) IN
       IF ConversionFails(rows)
       THEN Raise("ValueError") /\ UNCHANGED data
       ELSE data' = rows /\ pc' = "remove" /\ UNCHANGED <<outcome, raised>>
    /\ UNCHANGED <<op, wing, alpha, commands, geoFile, massFile, resFile, proc, exitStatus,
                   content, table, calls, spawned, solverWrote, touched>>

\* A clean-up that forgets result.txt.
RemoveInputsOnly ==
    /\ pc = "remove"
    /\ geoFile' = "absent"
    /\ massFile' = IF geoFile = "absent" THEN massFile ELSE "absent"
    /\ IF geoFile = "absent" \/ massFile = "absent"
       THEN Raise("FileNotFoundError")
       ELSE pc' = "validate" /\ UNCHANGED <<outcome, raised>>
    /\ UNCHANGED <<op, wing, alpha, commands, resFile, proc, exitStatus, content, data,
                   table, calls, spawned, solverWrote, touched>>

\* lines 128-130 and 195-197: three os.remove calls in a row; the first one whose file
\* is missing raises and the later ones are not reached.
Remove ==
    /\ pc = "remove"
    /\ geoFile' = "absent"
    /\ massFile' = IF geoFile = "absent" THEN massFile ELSE "absent"
    /\ resFile' = IF geoFile = "absent" \/ massFile = "absent" THEN resFile ELSE NoResult
    /\ IF geoFile = "absent" \/ massFile = "absent" \/ ~resFile.exists
       THEN Raise("FileNotFoundError")
       ELSE pc' = "validate" /\ UNCHANGED <<outcome, raised>>
    /\ UNCHANGED <<op, wing, alpha, commands, proc, exitStatus, content, data, table,
                   calls, spawned, solverWrote, touched>>

\* The strip-forces tables of lines 198-214.  A report with both tables gives one row
\* per strip; a report without the header phrase and the Yle / cl columns (a
\* total-forces file, a report cut short) makes read_fwf or the column lookup raise.
DistributionRows(c) ==
    IF c.fs = "tables"
    THEN <<[spanwise_location |-> 0, lift_coefficient |-> 0]>>
    ELSE <<>>

\* line 131 (schema validation of the polar) and lines 198-214 (the distribution
\* parse, which runs after the files are removed); then the table is returned.
Validate ==
    /\ pc = "validate"
    /\ \/ /\ op = "coefficients"
          /\ IF SchemaFails(data)
             THEN Raise("SchemaError") /\ UNCHANGED table
             ELSE Return(data)
       \/ /\ op = "distribution"
          /\ IF DistributionRows(content) = <<>>
             THEN Raise("KeyError") /\ UNCHANGED table
             ELSE Return(DistributionRows(content))
    /\ UNCHANGED <<op, wing, alpha, commands, geoFile, massFile, resFile, proc, exitStatus,
                   content, data, calls, spawned, solverWrote, touched>>

AvlInit ==
    /\ pc = "idle"
    /\ op = "none"
    /\ wing = [nSections |-> 2, nTables |-> 2, angleOk |-> TRUE, mass |-> "ok"]
    /\ alpha = <<>>
    /\ commands = <<>>
    /\ geoFile = "absent"
    /\ massFile = "absent"
    /\ resFile = NoResult
    /\ proc = "none"
    /\ exitStatus = "none"
    /\ content = NoResult
    /\ data = <<>>
    /\ outcome = NoOutcome
    /\ table = <<>>
    /\ calls = 0
    /\ spawned = 0
    /\ solverWrote = FALSE
    /\ touched = {}
    /\ raised = FALSE

\* ======================================================================
\* GeometryInput.to_avl
\* ======================================================================
MaxSurfaces == 2
MaxBodies == 1

Surfaces == [mirror_surface : BOOLEAN, xz_plane_location : {None, Some(0)}]
Bodies == [mirror_surface : BOOLEAN, xz_plane_location : {None, Some(0)}]

SeqsUpTo(S, n) == UNION {[1..k -> S] : k \in 0..n}

Documents == [cdp : {None, Some(0)},
              surface_array : SeqsUpTo(Surfaces, MaxSurfaces),
              body_array : SeqsUpTo(Bodies, MaxBodies)]

\* Surface.to_input_file line 595-597 and Body.to_input_file line 435-437
MirrorRaises(s) == s.mirror_surface /\ s.xz_plane_location = None

\* The keyword blocks of the rendered text, in order.
HeaderText(d) == <<"HEADER">> \o (IF d.cdp # None THEN <<"CDp">> ELSE <<>>)

SurfaceText(s) == <<"SURFACE">> \o (IF s.mirror_surface THEN <<"YDUPLICATE">> ELSE <<>>)

BodyText(b) == <<"BODY">> \o (IF b.mirror_surface THEN <<"YDUPLICATE">> ELSE <<>>)

RECURSIVE JoinSurfaces(_, _)
JoinSurfaces(arr, i) ==
    IF i > Len(arr) THEN <<>> ELSE SurfaceText(arr[i]) \o JoinSurfaces(arr, i + 1)

RECURSIVE JoinBodies(_, _)
JoinBodies(arr, i) ==
    IF i > Len(arr) THEN <<>> ELSE BodyText(arr[i]) \o JoinBodies(arr, i + 1)

\* lines 806-812: the whole text is built first; any element that raises aborts it.
RenderRaises(d) ==
    \/ \E i \in 1..Len(d.surface_array) : MirrorRaises(d.surface_array[i])
    \/ \E i \in 1..Len(d.body_array) : MirrorRaises(d.body_array[i])

Render(d) ==
    HeaderText(d) \o JoinSurfaces(d.surface_array, 1) \o JoinBodies(d.body_array, 1)

\* The surfaces rendered before the first one that raises.
RECURSIVE SurfacesBeforeRaise(_, _)
SurfacesBeforeRaise(arr, i) ==
    IF i > Len(arr) \/ MirrorRaises(arr[i]) THEN <<>>
    ELSE <<SurfaceText(arr[i])>> \o SurfacesBeforeRaise(arr, i + 1)

\* A to_avl that writes each block as soon as it is rendered.
ToAvlWritesStreaming(d) == <<HeaderText(d)>> \o SurfacesBeforeRaise(d.surface_array, 1)

\* The file.write calls to_avl makes (lines 813-814): one, with the whole text, and
\* only when rendering has not raised.
ToAvlWrites(d) == IF RenderRaises(d) THEN <<>> ELSE <<Render(d)>>

NoDocOutcome == [status |-> "none", error |-> "", value |-> <<>>]

\* GeometryInput.to_avl(file), lines 799-816
ToAvl ==
    /\ docOutcome.status = "none"
    /\ fileBuf' = IF fileArg = "file" THEN fileBuf \o ToAvlWrites(doc) ELSE fileBuf
    /\ docOutcome' =
         IF RenderRaises(doc)
         THEN [status |-> "raised", error |-> "ValueError", value |-> <<>>]
         ELSE [status |-> "returned", error |-> "",
               value |-> IF fileArg = "file" THEN <<>> ELSE Render(doc)]
    /\ UNCHANGED <<doc, fileArg>>

DocIdle ==
    /\ doc = [cdp |-> None, surface_array |-> <<>>, body_array |-> <<>>]
    /\ fileArg = "None"
    /\ fileBuf = <<>>
    /\ docOutcome = NoDocOutcome

DocInit ==
    /\ doc \in Documents
    /\ fileArg \in {"file", "None"}
    /\ fileBuf = <<>>
    /\ docOutcome = NoDocOutcome

\* ======================================================================
\* XfoilService
\* ======================================================================
MaxXfoilCalls == 3

\* The alpha argument: a list of angles or a (start, end, increment) tuple.
XfoilAlphas == {[kind |-> "list", v |-> <<0>>], [kind |-> "list", v |-> <<0, 5>>],
                [kind |-> "tuple", v |-> <<0, 5, 1>>]}

RECURSIVE AlfaCommands(_)
AlfaCommands(vs) ==
    IF vs = <<>> THEN <<>> ELSE <<CmdArg("ALFA", Head(vs))>> \o AlfaCommands(Tail(vs))

\* A session that never looks at __first_analysis.
SendViscousAlways(reynolds, first) == reynolds # None

\* line 83: the condition under which the viscous set-up is sent
SendViscous(reynolds, first) == reynolds # None /\ first

\* lines 83-86
ViscousCommands(reynolds, iterations, first) ==
    IF SendViscous(reynolds, first)
    THEN <<CmdArg("VISC", reynolds[1])>>
         \o (IF iterations # None THEN <<CmdArg("ITER", iterations[1])>> ELSE <<>>)
    ELSE <<>>

\* lines 80-96: the commands one get_coefficients call writes, in order
XfoilCommands(reynolds, iterations, first, a) ==
    <<Cmd("LOAD"), Cmd("PANE"), Cmd("OPER")>>
    \o ViscousCommands(reynolds, iterations, first)
    \o <<Cmd("PACC"), Cmd("result.txt"), Cmd("")>>
    \o (IF a.kind = "list" THEN AlfaCommands(a.v) ELSE <<[c |-> "ASEQ", a |-> a.v]>>)
    \o <<Cmd("PACC"), Cmd("")>>

\* get_coefficients, lines 78-116.  The solver may or may not have written the polar
\* file, and what it wrote may or may not pass read_fwf and the schema; both raise
\* before lines 114-115 are reached.
GetCoefficients ==
    /\ xfAlive
    /\ Len(xfSent) < MaxXfoilCalls
    /\ xfSent' = Append(xfSent, XfoilCommands(xfReynolds, xfIterations, xfFirst, xfAlpha))
    /\ \E wrote \in BOOLEAN, valid \in BOOLEAN :
         IF ~(xfFile \/ wrote)
         THEN /\ xfResults' = Append(xfResults, "FileNotFoundError")
              /\ UNCHANGED <<xfFile, xfFirst>>
         ELSE IF ~valid
              THEN /\ xfResults' = Append(xfResults, "SchemaError")
                   /\ xfFile' = TRUE
                   /\ UNCHANGED xfFirst
              ELSE /\ xfResults' = Append(xfResults, "returned")
                   /\ xfFile' = FALSE
                   /\ xfFirst' = FALSE
    /\ UNCHANGED <<xfReynolds, xfIterations, xfAlpha, xfAlive>>

\* The commands the class writes when its client drops the service: the class (lines
\* 33-160) has no close method, no __del__ and no context-manager exit, so none.
ShutdownCommands == <<>>

\* The client drops its reference to the service; the solver process is no longer used.
Discard ==
    /\ xfAlive
    /\ xfAlive' = FALSE
    /\ xfSent' = IF ShutdownCommands = <<>> THEN xfSent ELSE Append(xfSent, ShutdownCommands)
    /\ UNCHANGED <<xfReynolds, xfIterations, xfAlpha, xfFirst, xfResults, xfFile>>

XfIdle ==
    /\ xfReynolds = None
    /\ xfIterations = None
    /\ xfAlpha = [kind |-> "list", v |-> <<0>>]
    /\ xfFirst = TRUE
    /\ xfSent = <<>>
    /\ xfResults = <<>>
    /\ xfFile = FALSE
    /\ xfAlive = TRUE

\* XfoilService.__init__, lines 61-66
XfInit ==
    /\ xfReynolds \in {None, Some(1)}
    /\ xfIterations \in {None, Some(1)}
    /\ xfAlpha \in XfoilAlphas
    /\ xfFirst = TRUE
    /\ xfSent = <<>>
    /\ xfResults = <<>>
    /\ xfFile = FALSE
    /\ xfAlive = TRUE

\* ======================================================================
\* XfoilService.__send_command
\* ======================================================================
MaxCommands == 3

\* A piece of solver output: ordinary text ("t"), the letter of a prompt token ("c" for
\* the command prompt c>, "s" for the sub-menu prompt s>) or its closing ">".  `of` is
\* the command the solver emitted it for, 0 for the text printed at start-up.
Piece(txt, k) == [txt |-> txt, of |-> k]

\* What the solver prints before it reads its first command, and what it prints for
\* the command numbered k: text, then the prompt that asks for the next command.
Emission(kind, k) == <<Piece("t", k), Piece(kind, k), Piece(">", k)>>

\* Positions of the prompt tokens c> and s> in a string of pieces.
Prompts(out) ==
    {i \in 1..(Len(out) - 1) : out[i].txt \in {"c", "s"} /\ out[i + 1].txt = ">"}

\* A loop that stops after its first read.
PromptSeenOrTimedOut(out) == TRUE

\* line 156, negated: "c>" in output or "s>" in output
PromptSeen(out) == Prompts(out) # {}

\* lines 152 and 155: the command is written, output starts empty.
SendCommand ==
    /\ sndPc = "idle"
    /\ sndCount < MaxCommands
    /\ sndCount' = sndCount + 1
    /\ sndOutput' = <<>>
    /\ sndPc' = "reading"
    /\ UNCHANGED <<sndLog, pty, started, answered>>

\* lines 156-160: one pass of the loop.  read() blocks while nothing is pending and
\* returns some non-empty prefix of what is; the call returns once output holds a
\* prompt token.
ReadOutput ==
    /\ sndPc = "reading"
    /\ pty # <<>>
    /\ \E n \in 1..Len(pty) :
         LET out == sndOutput \o SubSeq(pty, 1, n) IN
         /\ pty' = SubSeq(pty, n + 1, Len(pty))
         /\ sndOutput' = out
         /\ IF PromptSeen(out)
            THEN /\ sndPc' = "idle"
                 /\ sndLog' = Append(sndLog, [cmd |-> sndCount, out |-> out])
            ELSE UNCHANGED <<sndPc, sndLog>>
    /\ UNCHANGED <<sndCount, started, answered>>

\* The process spawned at line 64 prints its banner and its first prompt; __init__
\* reads nothing.
SolverStarts ==
    /\ ~started
    /\ started' = TRUE
    /\ pty' = pty \o Emission("c", 0)
    /\ UNCHANGED <<sndPc, sndCount, sndOutput, sndLog, answered>>

\* The solver takes the next command it has not answered and prints its answer.
SolverAnswers ==
    /\ started
    /\ answered < sndCount
    /\ answered' = answered + 1
    /\ \E kind \in {"c", "s"} : pty' = pty \o Emission(kind, answered + 1)
    /\ UNCHANGED <<sndPc, sndCount, sndOutput, sndLog, started>>

SndIdle ==
    /\ sndPc = "idle"
    /\ sndCount = 0
    /\ sndOutput = <<>>
    /\ sndLog = <<>>
    /\ pty = <<>>
    /\ started = FALSE
    /\ answered = 0

\* ======================================================================
\* The regex extraction on synthetic results files
\* ======================================================================
MaxBlocks == 3

SyntheticAngles == {-5, 0, 5}

\* Text the pattern's gaps (.*? with DOTALL) run over: headings, rulers and line breaks,
\* and other labelled values of the report, among them the rolling-moment coefficient
\* Cltot, whose label differs from CLtot in case only.
Filler(i, a) == <<Token("text", "num", i, a), Token("Cltot", "num", i, a)>>

\* The fields a block of a synthetic file holds: all four ("ok"), the angle and the
\* lift field of a block cut short after them ("truncated"), or all but the lift field
\* ("nolift": AVL prints a value the pattern [-0-9.]+ does not match, such as NaN).
SyntheticShapes == {"ok", "truncated", "nolift"}
Holds(shape, f) ==
    CASE shape = "ok" -> TRUE
      [] shape = "truncated" -> f \in {"Alpha", "CLtot"}
      [] shape = "nolift" -> f # "CLtot"

\* Block i of a synthetic file: its fields in the order of the pattern, with or
\* without other text before, between and after them.
SyntheticBlock(b, i) ==
    LET gap == IF b.filler THEN Filler(i, b.a) ELSE <<>>
        field(f) == IF Holds(b.shape, f) THEN <<Token(f, "num", i, b.a)>> \o gap ELSE <<>>
    IN gap \o field("Alpha") \o field("CLtot") \o field("CDtot") \o field("Cmtot")

RECURSIVE SyntheticFile(_, _)
SyntheticFile(blocks, i) ==
    IF i > Len(blocks) THEN <<>>
    ELSE SyntheticBlock(blocks[i], i) \o SyntheticFile(blocks, i + 1)

\* Well-formed blocks with and without other text, defective blocks without.
SyntheticBlocks ==
    SeqsUpTo([a : SyntheticAngles, filler : BOOLEAN, shape : {"ok"}]
                \cup [a : SyntheticAngles, filler : {FALSE}, shape : SyntheticShapes],
             MaxBlocks)

\* lines 115-127 applied to the text of a synthetic file
ExtractSynthetic ==
    /\ ~exDone
    /\ exDone' = TRUE
    /\ LET rows == FindAll(SyntheticFile(exBlocks, 1), 1)
       IN exRows' = IF ConversionFails(rows) THEN <<>> ELSE rows
    /\ UNCHANGED exBlocks

ExIdle ==
    /\ exBlocks = <<>>
    /\ exRows = <<>>
    /\ exDone = FALSE

ExInit ==
    /\ exBlocks \in SyntheticBlocks
    /\ exRows = <<>>
    /\ exDone = FALSE

\* ======================================================================
\* The strip-forces parse on synthetic reports
\* ======================================================================
MaxStrips == 2

\* The text of a report is a string of symbols:
\*   "H"  the phrase " Strip Forces referred to Strip Area, Chord"
\*   "n"  a line break
\*   "c"  the column-heading line of a table (it names Yle and cl)
\*   "r"  a data line, with its Yle and cl values
\*   "d"  the text " --" that starts a ruler
\*   "x"  any other line
Sym(k) == [k |-> k, yle |-> 0, cl |-> 0]
Row(r) == [k |-> "r", yle |-> r.yle, cl |-> r.cl]

\* line 198 and the two terminators of lines 200 and 204
TableHeader == <<Sym("H"), Sym("n")>>
BlankLine == <<Sym("n"), Sym("n")>>
Ruler == <<Sym("n"), Sym("d")>>

\* str.find: the 0-based offset of the first occurrence of pat in str, -1 when there
\* is none.
Find(str, pat) ==
    LET at == {i \in 0..(Len(str) - Len(pat)) :
                  \A j \in 1..Len(pat) : str[i + j] = pat[j]}
    IN IF at = {} THEN -1 ELSE CHOOSE i \in at : \A q \in at : i <= q

\* str[a:b] and str[a:] for offsets a, b >= 0
Slice(str, a, b) ==
    LET hi == IF b > Len(str) THEN Len(str) ELSE b
    IN IF a >= hi THEN <<>> ELSE SubSeq(str, a + 1, hi)

From(str, a) == Slice(str, a, Len(str))

\* lines 199-204, as written: no find result is tested before it is used.
TableBounds(text) ==
    LET first_table_start == Find(text, TableHeader) + Len(TableHeader)
        first_table_end == first_table_start + Find(From(text, first_table_start), BlankLine)
        second_table_start ==
            first_table_end + Find(From(text, first_table_end), TableHeader)
                + Len(TableHeader)
        second_table_end ==
            second_table_start + Find(From(text, second_table_start), Ruler)
    IN [first_table_start |-> first_table_start, first_table_end |-> first_table_end,
        second_table_start |-> second_table_start, second_table_end |-> second_table_end]

\* The lines of a text, blank lines skipped (read_fwf skips them).
RECURSIVE Lines(_)
Lines(text) ==
    IF text = <<>> THEN <<>>
    ELSE (IF Head(text).k = "n" THEN <<>> ELSE <<Head(text)>>) \o Lines(Tail(text))

\* pd.read_fwf(io.StringIO(text)).astype(float) and the Yle / cl lookups of lines
\* 205-211: no text at all, a first line that does not name the columns, or a data
\* line that is no number, each raise.
ParseError(text) ==
    LET ls == Lines(text) IN
    IF ls = <<>> THEN "EmptyDataError"
    ELSE IF \E i \in 2..Len(ls) : ls[i].k # "r" THEN "ValueError"
    ELSE IF ls[1].k # "c" THEN "KeyError"
    ELSE ""

ParseRows(text) ==
    LET ls == Lines(text)
    IN [i \in 1..(Len(ls) - 1) |->
          [spanwise_location |-> ls[i + 1].yle, lift_coefficient |-> ls[i + 1].cl]]

\* A frame left in concatenation order.
KeepOrder(rows) == rows

\* sort_values("spanwise_location"), line 213: whole rows are reordered by their key.
RECURSIVE SortBySpan(_)
SortBySpan(rows) ==
    IF rows = <<>> THEN <<>>
    ELSE LET rest == SortBySpan(Tail(rows))
             h == Head(rows)
             k == Cardinality({i \in 1..Len(rest) :
                                  rest[i].spanwise_location <= h.spanwise_location})
         IN SubSeq(rest, 1, k) \o <<h>> \o SubSeq(rest, k + 1, Len(rest))

\* lines 205-214
DistributionTable(t1, t2) == SortBySpan(t1 \o t2)

StripRows == [yle : 0..1, cl : 0..1]
StripTables == UNION {[1..k -> StripRows] : k \in 1..MaxStrips}

\* A report: other text first (pre), the phrase (h1), the first table, its closing
\* blank line (end1), other text (mid), the phrase again (h2), the second table, and
\* the ruler that closes it (end2).  A well-formed report has h1, end1, h2 and end2.
WellFormed(r) == r.h1 /\ r.end1 /\ r.h2 /\ r.end2

StripReports ==
    {r \in [pre : BOOLEAN, h1 : BOOLEAN, end1 : BOOLEAN, mid : BOOLEAN, h2 : BOOLEAN,
            end2 : BOOLEAN, t1 : StripTables, t2 : StripTables] :
        WellFormed(r) \/ (Len(r.t1) = 1 /\ Len(r.t2) = 1)}

RECURSIVE TableText(_)
TableText(t) ==
    IF t = <<>> THEN <<>> ELSE <<Row(Head(t)), Sym("n")>> \o TableText(Tail(t))

Content(r) ==
    (IF r.pre THEN <<Sym("x"), Sym("n")>> ELSE <<>>)
    \o (IF r.h1 THEN TableHeader ELSE <<>>)
    \o <<Sym("c"), Sym("n")>> \o TableText(r.t1)
    \o (IF r.end1 THEN <<Sym("n")>> ELSE <<>>)
    \o (IF r.mid THEN <<Sym("x"), Sym("n")>> ELSE <<>>)
    \o (IF r.h2 THEN TableHeader ELSE <<>>)
    \o <<Sym("c"), Sym("n")>> \o TableText(r.t2)
    \o (IF r.end2 THEN <<Sym("d"), Sym("n")>> ELSE <<>>)

NoStripOutcome == [status |-> "none", error |-> "", table |-> <<>>, bounds |-> <<>>]

\* lines 198-214 applied to the text of a report
ParseStripForces ==
    /\ stOutcome.status = "none"
    /\ LET text == Content(stReport)
           b == TableBounds(text)
           text1 == Slice(text, b.first_table_start, b.first_table_end)
           text2 == Slice(text, b.second_table_start, b.second_table_end)
           err == IF ParseError(text1) # "" THEN ParseError(text1) ELSE ParseError(text2)
       IN stOutcome' =
            IF err # ""
            THEN [status |-> "raised", error |-> err, table |-> <<>>, bounds |-> <<b>>]
            ELSE [status |-> "returned", error |-> "",
                  table |-> DistributionTable(ParseRows(text1), ParseRows(text2)),
                  bounds |-> <<b>>]
    /\ UNCHANGED stReport

StIdle ==
    /\ stReport = [pre |-> FALSE, h1 |-> TRUE, end1 |-> TRUE, mid |-> FALSE, h2 |-> TRUE,
                   end2 |-> TRUE, t1 |-> <<[yle |-> 0, cl |-> 0]>>,
                   t2 |-> <<[yle |-> 0, cl |-> 0]>>]
    /\ stOutcome = NoStripOutcome

StInit ==
    /\ stReport \in StripReports
    /\ stOutcome = NoStripOutcome

\* ======================================================================
\* Two batch calls in flight in one working directory
\* ======================================================================
Callers == {1, 2}
FileNames == {"input.avl", "input.mass", "result.txt"}

\* Scratch paths with a component of their own for every call.
ScratchPathPerCall(p, f) == [dir |-> "avl", call |-> p, name |-> f]

\* AvlService.__init__, lines 35-37: the three paths are AVL_PATH joined with a fixed
\* name; nothing of the call or of the service object enters them.
ScratchPath(p, f) == [dir |-> "avl", call |-> 0, name |-> f]

ScratchPaths == {ScratchPath(p, f) : p \in Callers, f \in FileNames}

\* What a file holds is a set of tags [for, geo]: the call it was written for and the
\* call whose geometry it stems from.
Absent == [exists |-> FALSE, tags |-> {}]
Holding(tags) == [exists |-> TRUE, tags |-> tags]
Own(p) == [for |-> p, geo |-> p]

CStep(p, from, to) ==
    /\ cPc[p] = from
    /\ cPc' = [cPc EXCEPT ![p] = to]

CRaise(p, from, err) ==
    /\ cPc[p] = from
    /\ cPc' = [cPc EXCEPT ![p] = "done"]
    /\ cOut' = [cOut EXCEPT ![p] = err]

\* lines 86-89
CWriteGeometry(p) ==
    /\ CStep(p, "start", "write_mass")
    /\ cFs' = [cFs EXCEPT ![ScratchPath(p, "input.avl")] = Holding({Own(p)})]
    /\ UNCHANGED <<cGeo, cRead, cOut>>

\* lines 98-101
CWriteMass(p) ==
    /\ CStep(p, "write_mass", "run_avl")
    /\ cFs' = [cFs EXCEPT ![ScratchPath(p, "input.mass")] = Holding({Own(p)})]
    /\ UNCHANGED <<cGeo, cRead, cOut>>

\* run_avl, lines 46-54: the process is started on the geometry path and loads what
\* the file holds then.
CRunAvl(p) ==
    LET geo == cFs[ScratchPath(p, "input.avl")] IN
    /\ IF geo.exists
       THEN /\ CStep(p, "run_avl", "communicate")
            /\ cGeo' = [cGeo EXCEPT ![p] = (CHOOSE t \in geo.tags : TRUE).geo]
            /\ UNCHANGED cOut
       ELSE CRaise(p, "run_avl", "FileNotFoundError") /\ UNCHANGED cGeo
    /\ UNCHANGED <<cFs, cRead>>

\* line 55: the solver writes its total-forces block to the results path, replacing
\* the file or appending to it, and exits.
CCommunicate(p) ==
    LET path == ScratchPath(p, "result.txt")
        mine == [for |-> p, geo |-> cGeo[p]]
    IN /\ CStep(p, "communicate", "read_results")
       /\ \E keep \in BOOLEAN :
            cFs' = [cFs EXCEPT ![path] =
                       Holding(IF keep THEN cFs[path].tags \cup {mine} ELSE {mine})]
       /\ UNCHANGED <<cGeo, cRead, cOut>>

\* lines 113-114
CReadResults(p) ==
    LET res == cFs[ScratchPath(p, "result.txt")] IN
    /\ IF res.exists
       THEN /\ CStep(p, "read_results", "remove_geometry")
            /\ cRead' = [cRead EXCEPT ![p] = res.tags]
            /\ UNCHANGED cOut
       ELSE CRaise(p, "read_results", "FileNotFoundError") /\ UNCHANGED cRead
    /\ UNCHANGED <<cFs, cGeo>>

\* One os.remove of lines 128-130.
CRemove(p, f, from, to) ==
    LET path == ScratchPath(p, f) IN
    /\ IF cFs[path].exists
       THEN /\ CStep(p, from, to)
            /\ cFs' = [cFs EXCEPT ![path] = Absent]
            /\ IF to = "done"
               THEN cOut' = [cOut EXCEPT ![p] = "returned"]
               ELSE UNCHANGED cOut
       ELSE CRaise(p, from, "FileNotFoundError") /\ UNCHANGED cFs
    /\ UNCHANGED <<cGeo, cRead>>

CRemoveGeometry(p) == CRemove(p, "input.avl", "remove_geometry", "remove_mass")
CRemoveMass(p) == CRemove(p, "input.mass", "remove_mass", "remove_results")
CRemoveResults(p) == CRemove(p, "result.txt", "remove_results", "done")

CIdle ==
    /\ cPc = [p \in Callers |-> "done"]
    /\ cFs = [path \in ScratchPaths |-> Absent]
    /\ cGeo = [p \in Callers |-> 0]
    /\ cRead = [p \in Callers |-> {}]
    /\ cOut = [p \in Callers |-> "none"]

\* Both calls are about to start in an empty working directory.
CInit ==
    /\ cPc = [p \in Callers |-> "start"]
    /\ cFs = [path \in ScratchPaths |-> Absent]
    /\ cGeo = [p \in Callers |-> 0]
    /\ cRead = [p \in Callers |-> {}]
    /\ cOut = [p \in Callers |-> "none"]

\* ======================================================================
\* Wing.chord_distribution
\* ======================================================================
MaxSections == 2

\* Spanwise coordinates and chords of the sections, and the positions asked for (one
\* below and one above every section coordinate).
SectionYs == 0..2
SectionChords == 1..2
QueryYs == -1..3

WingSections == [y : SectionYs, chord : SectionChords]
SectionArrays == UNION {[1..k -> WingSections] : k \in 1..MaxSections}

\* A value of the interpolation, kept exact as a fraction with a positive denominator.
Frac(num, den) == [num |-> num, den |-> den]

\* sorted(self.section_array, key=lambda x: x.location.y), line 109: sorted() is
\* stable, sections with equal y keep the order they have in section_array.
RECURSIVE SortedByY(_)
SortedByY(secs) ==
    IF secs = <<>> THEN <<>>
    ELSE LET n == Len(secs)
             rest == SortedByY(SubSeq(secs, 1, n - 1))
             last == secs[n]
             k == Cardinality({i \in 1..Len(rest) : rest[i].y <= last.y})
         IN SubSeq(rest, 1, k) \o <<last>> \o SubSeq(rest, k + 1, Len(rest))

\* np.interp(x, xp, fp) for a scalar x, line 112: with j the last index whose xp is at
\* most x, the left end value when there is none, the right end value when j is the
\* last index, fp[j] when xp[j] = x, and the straight line through the points j and
\* j + 1 otherwise.
Interp(x, xp, fp) ==
    LET n == Len(xp)
        j == Cardinality({i \in 1..n : xp[i] <= x})
    IN IF j = 0 THEN Frac(fp[1], 1)
       ELSE IF j = n THEN Frac(fp[n], 1)
       ELSE IF xp[j] = x THEN Frac(fp[j], 1)
       ELSE Frac((fp[j + 1] - fp[j]) * (x - xp[j]) + fp[j] * (xp[j + 1] - xp[j]),
                 xp[j + 1] - xp[j])

\* Wing.chord_distribution, lines 109-112
chord_distribution(section_array, y) ==
    LET sections == SortedByY(section_array)
        ys == [i \in 1..Len(sections) |-> sections[i].y]
        chords == [i \in 1..Len(sections) |-> sections[i].chord]
    IN Interp(y, ys, chords)

ChordDistribution ==
    /\ wResult = <<>>
    /\ wResult' = <<chord_distribution(wSections, wY)>>
    /\ UNCHANGED <<wSections, wY>>

WIdle ==
    /\ wSections = <<[y |-> 0, chord |-> 1]>>
    /\ wY = 0
    /\ wResult = <<>>

WInit ==
    /\ wSections \in SectionArrays
    /\ wY \in QueryYs
    /\ wResult = <<>>

\* ======================================================================
\* Wing.planform_area, Wing.mean_geometric_chord, Wing.span (models/geometries/main.py),
\* Wing.to_avl (models/main.py) and the header of GeometryInput.from_wing
\* (models/avl/main.py)

\* Coordinates of the sections: every distance between two sections in the x-y plane
\* is a whole number (0, 3, 4 or 5), so the square root of planform_area is exact.
PlanXs == {0, 3}
PlanYs == {0, 4}
PlanSections == [x : PlanXs, y : PlanYs, chord : SectionChords]
PlanArrays == UNION {[1..k -> PlanSections] : k \in 0..MaxSections}

\* np.sqrt on a perfect square
Sqrt(n) == CHOOSE r \in 0..n : r * r = n

\* The sum of planform_area, lines 90-96: per pair of consecutive sorted sections
\* 0.5 * (c1 + c2) * sqrt(dy^2 + dx^2); kept here as twice the term, so that it is whole.
RECURSIVE TwicePanelSum(_, _)
TwicePanelSum(sections, i) ==
    IF i >= Len(sections) THEN 0
    ELSE LET s1 == sections[i]
             s2 == sections[i + 1]
         IN (s1.chord + s2.chord)
                * Sqrt((s2.y - s1.y) * (s2.y - s1.y) + (s2.x - s1.x) * (s2.x - s1.x))
            + TwicePanelSum(sections, i + 1)

\* Wing.planform_area, lines 87-97: 2 * np.sum([...]); the sum of an empty list is 0.
planform_area(section_array) == TwicePanelSum(SortedByY(section_array), 1)

\* Wing.span, line 77
span(section_array) ==
    2 * (CHOOSE m \in {section_array[i].y : i \in 1..Len(section_array)} :
            \A i \in 1..Len(section_array) : section_array[i].y <= m)

\* A number a query returned: a plain value or, for the quadrature of
\* mean_geometric_chord, (2 / s) times the integral, which is positive when s is.
Number(n) == [kind |-> "number", n |-> n]
Quadrature(s) == [kind |-> "quadrature", n |-> s]

NoQuery == [status |-> "none", error |-> "", value |-> Number(0)]
Returned(v) == [status |-> "returned", error |-> "", value |-> v]
Raised(e) == [status |-> "raised", error |-> e, value |-> Number(0)]

\* planform_area() called by a client: no statement of it raises for any section count.
PlanformArea ==
    /\ pArea.status = "none"
    /\ pArea' = Returned(Number(planform_area(pSections)))
    /\ UNCHANGED <<pSections, pMean, pAvl, pHeader>>

\* Wing.mean_geometric_chord, lines 139-152: min() and max() of an empty sequence raise
\* ValueError (lines 145-147); the result stays 0 when all sections share one y.
mean_geometric_chord(section_array) ==
    LET s == planform_area(section_array)
        ys == {section_array[i].y : i \in 1..Len(section_array)}
    IN IF section_array = <<>> THEN Raised("ValueError")
       ELSE IF Cardinality(ys) > 1
            THEN IF s > 0 THEN Returned(Quadrature(s)) ELSE Returned(Number(0))
            ELSE Returned(Number(0))

MeanGeometricChord ==
    /\ pMean.status = "none"
    /\ pMean' = mean_geometric_chord(pSections)
    /\ UNCHANGED <<pSections, pArea, pAvl, pHeader>>

\* Wing.to_avl of models/main.py, lines 166-167: the only section-count check of the
\* three operations; with two or more sections the text of the document is returned.
WingToAvl ==
    /\ pAvl.status = "none"
    /\ pAvl' = IF Len(pSections) < 2 THEN Raised("RuntimeError")
               ELSE Returned([kind |-> "text", n |-> Len(pSections)])
    /\ UNCHANGED <<pSections, pArea, pMean, pHeader>>

\* The header of GeometryInput.from_wing, lines 733-744: reference_span is wing.span()
\* (line 741) and the moment reference point is a quarter of the chord of
\* section_array[0], the first section as stored (line 742). max() of span() raises
\* ValueError on a wing without sections.
FromWingHeader(section_array) ==
    IF section_array = <<>> THEN <<"ValueError">>
    ELSE <<[xref |-> Frac(section_array[1].chord, 4), yref |-> 0, zref |-> 0,
            bref |-> span(section_array)]>>

HeaderFromWing ==
    /\ pHeader = <<>>
    /\ pHeader' = FromWingHeader(pSections)
    /\ UNCHANGED <<pSections, pArea, pMean, pAvl>>

PIdle ==
    /\ pSections = <<>>
    /\ pArea = NoQuery
    /\ pMean = NoQuery
    /\ pAvl = NoQuery
    /\ pHeader = <<>>

PInit ==
    /\ pSections \in PlanArrays
    /\ pArea = NoQuery
    /\ pMean = NoQuery
    /\ pAvl = NoQuery
    /\ pHeader = <<>>

\* ======================================================================
\* The keyword blocks of the geometry document: Header, Control, Section, Body and
\* Surface.to_input_file and GeometryInput.to_avl (models/avl/main.py)
MaxSectionsPerSurface == 2

\* The optional blocks of a surface and of a body, by keyword.
SurfaceOptions ==
    {"YDUPLICATE", "SCALE", "TRANSLATE", "ANGLE", "NOWAKE", "NOALBE", "NOLOAD", "CDCL"}
BodyOptions == {"YDUPLICATE", "SCALE", "TRANSLATE"}

\* The configurations drawn: none of the options, one of them, all but one, all.
OptionSets(K) == {S \in SUBSET K : Cardinality(S) <= 1 \/ Cardinality(K \ S) <= 1}

\* Optional(b): a configuration value that is present exactly when b.
Optional(b) == IF b THEN Some(0) ELSE None

BlockSections == [cl_alpha_slope_scaling : {None, Some(0)},
                  profile_drag_settings : {None, Some(0)},
                  control_array : {<<>>, <<[name |-> "c1"], [name |-> "c2"]>>}]

\* A surface with the options S set; xz_plane_location is set whether or not the
\* surface is mirrored.
BlockSurface(S, sections) ==
    [mirror_surface |-> "YDUPLICATE" \in S,
     xz_plane_location |-> Some(0),
     scale |-> Optional("SCALE" \in S),
     translate |-> Optional("TRANSLATE" \in S),
     incremental_angle |-> Optional("ANGLE" \in S),
     ignore_wake |-> "NOWAKE" \in S,
     ignore_freestream_effect |-> "NOALBE" \in S,
     ignore_load_contribution |-> "NOLOAD" \in S,
     profile_drag_settings |-> Optional("CDCL" \in S),
     section_array |-> sections]

BlockBody(S) ==
    [mirror_surface |-> "YDUPLICATE" \in S,
     xz_plane_location |-> Some(0),
     scale |-> Optional("SCALE" \in S),
     translate |-> Optional("TRANSLATE" \in S)]

PlainSection ==
    [cl_alpha_slope_scaling |-> None, profile_drag_settings |-> None, control_array |-> <<>>]

\* One surface or two. The first has any of the option sets and one plain section, or
\* no option or every option and any sections; the second is plain with one section.
BlockSurfaceArrays ==
    LET firsts ==
            {BlockSurface(S, <<PlainSection>>) : S \in OptionSets(SurfaceOptions)}
                \cup {BlockSurface(S, secs) :
                        S \in {{}, SurfaceOptions},
                        secs \in SeqsUpTo(BlockSections, MaxSectionsPerSurface)}
    IN {<<f>> : f \in firsts} \cup {<<f, BlockSurface({}, <<PlainSection>>)>> : f \in firsts}

BlockDocuments ==
    [header : [default_profile_drag_coefficient : {None, Some(0)}],
     surface_array : BlockSurfaceArrays,
     body_array : {<<>>} \cup {<<BlockBody(S)>> : S \in OptionSets(BodyOptions)}]

\* A line of the text that starts a block, with the element that rendered it: region r
\* (0 header, 1 surfaces, 2 bodies), element i of the region, section j of the surface
\* (0: the surface itself), control k of the section (0: the section itself).
Tagged(lines, r, i, j, k) ==
    [n \in 1..Len(lines) |-> [kw |-> lines[n], r |-> r, i |-> i, j |-> j, k |-> k]]

If(b, kw) == IF b THEN <<kw>> ELSE <<>>

\* Header.to_input_file, lines 113-151: the fixed lines, then the CDp block (147-148)
HeaderBlocks(h) == <<"HEADER">> \o If(h.default_profile_drag_coefficient # None, "CDp")

\* Control.to_input_file, lines 246-263
ControlBlocks(c) == <<"CONTROL">>

\* A section that writes the CLAF block whether or not the scaling is set.
ClafBlockAlways(sec) == <<"CLAF">>

\* Section.to_input_file, lines 346-355
ClafBlock(sec) == If(sec.cl_alpha_slope_scaling # None, "CLAF")

\* Section.to_input_file, lines 318-377: the section's own lines
SectionBlocks(sec) ==
    <<"SECTION", "AFILE">> \o ClafBlock(sec) \o If(sec.profile_drag_settings # None, "CDCL")

RECURSIVE JoinControls(_, _, _, _)
JoinControls(arr, i, j, k) ==
    IF k > Len(arr) THEN <<>>
    ELSE Tagged(ControlBlocks(arr[k]), 1, i, j, k) \o JoinControls(arr, i, j, k + 1)

\* Section.to_input_file, lines 378-380: the own lines, then the controls in list order
SectionInputFile(sec, i, j) ==
    Tagged(SectionBlocks(sec), 1, i, j, 0) \o JoinControls(sec.control_array, i, j, 1)

RECURSIVE JoinSections(_, _, _)
JoinSections(arr, i, j) ==
    IF j > Len(arr) THEN <<>>
    ELSE SectionInputFile(arr[j], i, j) \o JoinSections(arr, i, j + 1)

\* Surface.to_input_file, lines 571-681: the surface's own lines
SurfaceBlocks(sf) ==
    <<"SURFACE">>
        \o If(sf.mirror_surface, "YDUPLICATE")
        \o If(sf.scale # None, "SCALE")
        \o If(sf.translate # None, "TRANSLATE")
        \o If(sf.incremental_angle # None, "ANGLE")
        \o If(sf.ignore_wake, "NOWAKE")
        \o If(sf.ignore_freestream_effect, "NOALBE")
        \o If(sf.ignore_load_contribution, "NOLOAD")
        \o If(sf.profile_drag_settings # None, "CDCL")

\* Surface.to_input_file, lines 682-687: the own lines, then the sections in list order
SurfaceInputFile(sf, i) ==
    Tagged(SurfaceBlocks(sf), 1, i, 0, 0) \o JoinSections(sf.section_array, i, 1)

\* Body.to_input_file, lines 426-484
BodyBlocks(b) ==
    <<"BODY">>
        \o If(b.mirror_surface, "YDUPLICATE")
        \o If(b.scale # None, "SCALE")
        \o If(b.translate # None, "TRANSLATE")

RECURSIVE JoinSurfaceFiles(_, _)
JoinSurfaceFiles(arr, i) ==
    IF i > Len(arr) THEN <<>>
    ELSE SurfaceInputFile(arr[i], i) \o JoinSurfaceFiles(arr, i + 1)

RECURSIVE JoinBodyFiles(_, _)
JoinBodyFiles(arr, i) ==
    IF i > Len(arr) THEN <<>>
    ELSE Tagged(BodyBlocks(arr[i]), 2, i, 0, 0) \o JoinBodyFiles(arr, i + 1)

\* GeometryInput.to_avl, lines 806-812: header, surfaces, bodies
GeometryBlocks(d) ==
    Tagged(HeaderBlocks(d.header), 0, 0, 0, 0)
        \o JoinSurfaceFiles(d.surface_array, 1)
        \o JoinBodyFiles(d.body_array, 1)

\* to_avl() without a file returns the text; a mirrored element without its plane
\* location raises instead (lines 596-597, 436-437).
RenderBlocks ==
    /\ rText = <<>>
    /\ rText' = IF RenderRaises(rDoc)
                THEN Tagged(<<"ValueError">>, 0, 0, 0, 0)
                ELSE GeometryBlocks(rDoc)
    /\ UNCHANGED rDoc

RIdle ==
    /\ rDoc = [header |-> [default_profile_drag_coefficient |-> None],
               surface_array |-> <<>>, body_array |-> <<>>]
    /\ rText = <<>>

RInit ==
    /\ rDoc \in BlockDocuments
    /\ rText = <<>>

\* ======================================================================
\* The numeric fields written by Header, Surface, Section, Control and
\* Body.to_input_file and by MassInput.to_mass (models/avl/main.py)

\* A supplied number: a Python int or float, of a magnitude that repr() writes in
\* positional notation ("plain": 0, or 1e-4 <= |v| < 1e16) or not ("tiny", "huge").
Supplied ==
    {[type |-> "int", mag |-> "plain"], [type |-> "int", mag |-> "huge"],
     [type |-> "float", mag |-> "plain"], [type |-> "float", mag |-> "tiny"],
     [type |-> "float", mag |-> "huge"]}

\* The text of a number: "integer" (digits only), "decimal" (digits, a point, digits)
\* or "exponent" (mantissa, e, exponent).
\* str(v) of a value that is not converted first
StrAsSupplied(v) ==
    IF v.type = "int" THEN "integer" ELSE IF v.mag = "plain" THEN "decimal" ELSE "exponent"

\* str(float(v)), as in line 118
StrFloat(v) == IF v.mag = "plain" THEN "decimal" ELSE "exponent"

\* str(n) of an int field or of the value of an IntEnum, as in lines 123, 258, 433, 580
StrInt(v) == "integer"

\* f"{round(v, 3)}", lines 923 and 931: round() of an int is an int; a float below
\* 0.0005 rounds to 0.0.
StrRound3(v) ==
    IF v.type = "int" THEN "integer" ELSE IF v.mag = "huge" THEN "exponent" ELSE "decimal"

\* The fields, by the expression that writes them.
FloatFields ==
    {"Mach", "Zsym", "Sref", "Cref", "Bref", "Xref", "Yref", "Zref", "CDp",
     "Cspace", "Sspace", "Ydupl", "Xscale", "dX", "dAinc",
     "Xle", "Yle", "Zle", "Chord", "Ainc", "CLAF", "CL1", "CD1",
     "gain", "Xhinge", "XYZhvec", "Bspace"}
IntFields == {"iYsym", "iZsym", "Nchord", "Nspan", "Nbody", "SgnDup"}
MassFloatFields == {"Lunit", "Munit", "Tunit", "mass", "Xcg", "Ixx", "Ixy"}
RoundedFields == {"g", "rho"}
NumericFields == FloatFields \cup IntFields \cup MassFloatFields \cup RoundedFields

\* What a client supplies: one value for the float-typed fields of the geometry, one
\* for those of the mass document, the int-typed counts and flags, and g and rho,
\* which may be None.
SuppliedSets ==
    [geometry : Supplied, mass : Supplied, count : {[type |-> "int", mag |-> "plain"]},
     g : {<<>>} \cup {<<v>> : v \in Supplied}, rho : {<<>>} \cup {<<v>> : v \in Supplied}]

\* The text of one field; "absent" when its line is not written (lines 919, 927).
FieldText(f, sup) ==
    IF f \in FloatFields THEN StrFloat(sup.geometry)
    ELSE IF f \in MassFloatFields THEN StrFloat(sup.mass)
    ELSE IF f \in IntFields THEN StrInt(sup.count)
    ELSE IF f = "g" THEN (IF sup.g = <<>> THEN "absent" ELSE StrRound3(sup.g[1]))
    ELSE IF sup.rho = <<>> THEN "absent" ELSE StrRound3(sup.rho[1])

\* GeometryInput.to_avl and MassInput.to_mass of one configuration
RenderNumbers ==
    /\ nFields = <<>>
    /\ nFields' = [f \in NumericFields |-> FieldText(f, nSupplied)]
    /\ UNCHANGED nSupplied

NIdle ==
    /\ nSupplied = [geometry |-> [type |-> "float", mag |-> "plain"],
                    mass |-> [type |-> "float", mag |-> "plain"],
                    count |-> [type |-> "int", mag |-> "plain"],
                    g |-> <<>>, rho |-> <<>>]
    /\ nFields = <<>>

NInit ==
    /\ nSupplied \in SuppliedSets
    /\ nFields = <<>>

\* ======================================================================
\* get_wing_coefficients with alpha given as a tuple (services/avl/main.py, 104-111).
\* In this section angles are counted in halves of a degree, so that increments of
\* 0.5, 1, 1.5, 2 and 2.5 degrees are whole numbers; one degree is OneDegree units.
OneDegree == 2
SweepStarts == -2..2
SweepEnds == -2..4
SweepIncrements == 1..5
AlphaTuples == [start : SweepStarts, end : SweepEnds, inc : SweepIncrements]

\* np.arange(start, stop, step) for step > 0: start + k * step for every k >= 0 that
\* keeps the value below stop.
Arange(start, stop, step) ==
    LET n == IF stop <= start THEN 0 ELSE ((stop - start - 1) \div step) + 1
    IN [k \in 1..n |-> start + (k - 1) * step]

\* lines 104-105: np.arange(alpha[0], alpha[1] + 1, alpha[2])
AlphaFromTuple(t) == Arange(t.start, t.end + OneDegree, t.inc)

\* lines 102-111 for a tuple
BuildSweep ==
    /\ aCommands = <<>>
    /\ aCommands' = CoefficientCommands(AlphaFromTuple(aTuple))
    /\ UNCHANGED aTuple

AIdle ==
    /\ aTuple = [start |-> 0, end |-> 0, inc |-> 1]
    /\ aCommands = <<>>

AInit ==
    /\ aTuple \in AlphaTuples
    /\ aCommands = <<>>

\* ======================================================================
\* Specifications
\* ======================================================================
\* The parts of the model a specification does not exercise stay as constructed.
FnIdle == PIdle /\ RIdle /\ NIdle /\ AIdle
RestIdle == SndIdle /\ ExIdle /\ StIdle /\ CIdle /\ WIdle /\ FnIdle

\* The caller of the AVL service also drives an XFOIL session: one more kind of call.
ClientGetCoefficients ==
    /\ pc = "idle"
    /\ calls < MaxCalls
    /\ calls' = calls + 1
    /\ GetCoefficients
    /\ UNCHANGED <<pc, op, wing, alpha, commands, geoFile, massFile, resFile, proc,
                   exitStatus, content, data, outcome, table, spawned, solverWrote,
                   touched, raised>>

Init == AvlInit /\ DocIdle /\ XfIdle /\ RestIdle
Next ==
    \/ GetWingCoefficients /\ UNCHANGED <<docVars, xfVars, restVars>>
    \/ GetWingLiftCoefficientDistribution /\ UNCHANGED <<docVars, xfVars, restVars>>
    \/ RunAvlDirect /\ UNCHANGED <<docVars, xfVars, restVars>>
    \/ GeometryFromWing /\ UNCHANGED <<docVars, xfVars, restVars>>
    \/ WriteGeometry /\ UNCHANGED <<docVars, xfVars, restVars>>
    \/ MassFromWing /\ UNCHANGED <<docVars, xfVars, restVars>>
    \/ WriteMass /\ UNCHANGED <<docVars, xfVars, restVars>>
    \/ BuildCommands /\ UNCHANGED <<docVars, xfVars, restVars>>
    \/ RunAvl /\ UNCHANGED <<docVars, xfVars, restVars>>
    \/ Communicate /\ UNCHANGED <<docVars, xfVars, restVars>>
    \/ ReadResults /\ UNCHANGED <<docVars, xfVars, restVars>>
    \/ Extract /\ UNCHANGED <<docVars, xfVars, restVars>>
    \/ Remove /\ UNCHANGED <<docVars, xfVars, restVars>>
    \/ Validate /\ UNCHANGED <<docVars, xfVars, restVars>>
    \/ ClientGetCoefficients /\ UNCHANGED <<docVars, restVars>>
Spec == Init /\ [][Next]_vars

InitToAvl == AvlInit /\ DocInit /\ XfIdle /\ RestIdle
NextToAvl == ToAvl /\ UNCHANGED <<avlVars, xfVars, restVars>>
SpecToAvl == InitToAvl /\ [][NextToAvl]_vars

InitXfoil == AvlInit /\ DocIdle /\ XfInit /\ RestIdle
NextXfoil ==
    \/ GetCoefficients /\ UNCHANGED <<avlVars, docVars, restVars>>
    \/ Discard /\ UNCHANGED <<avlVars, docVars, restVars>>
SpecXfoil == InitXfoil /\ [][NextXfoil]_vars

\* A driver that holds one pseudo-terminal session and calls run_avl with its own
\* script; input.avl may or may not have been put in place beforehand.
InitDriver ==
    /\ AvlInit /\ DocIdle /\ XfIdle /\ RestIdle
NextDriver ==
    \/ SendCommand /\ UNCHANGED <<avlVars, docVars, xfVars, exVars, stVars, cVars, wVars, fnVars>>
    \/ ReadOutput /\ UNCHANGED <<avlVars, docVars, xfVars, exVars, stVars, cVars, wVars, fnVars>>
    \/ SolverStarts /\ UNCHANGED <<avlVars, docVars, xfVars, exVars, stVars, cVars, wVars, fnVars>>
    \/ SolverAnswers /\ UNCHANGED <<avlVars, docVars, xfVars, exVars, stVars, cVars, wVars, fnVars>>
    \/ ClientPutsGeometry /\ UNCHANGED <<docVars, xfVars, restVars>>
    \/ RunAvlDirect /\ UNCHANGED <<docVars, xfVars, restVars>>
    \/ RunAvl /\ UNCHANGED <<docVars, xfVars, restVars>>
    \/ Communicate /\ UNCHANGED <<docVars, xfVars, restVars>>
SpecDriver == InitDriver /\ [][NextDriver]_vars

InitExtract ==
    AvlInit /\ DocIdle /\ XfIdle /\ SndIdle /\ ExInit /\ StIdle /\ CIdle /\ WIdle /\ FnIdle
NextExtract == ExtractSynthetic /\ UNCHANGED <<avlVars, docVars, xfVars, sndVars, stVars, cVars, wVars,
                                            fnVars>>
SpecExtract == InitExtract /\ [][NextExtract]_vars

InitStrip ==
    AvlInit /\ DocIdle /\ XfIdle /\ SndIdle /\ ExIdle /\ StInit /\ CIdle /\ WIdle /\ FnIdle
NextStrip == ParseStripForces /\ UNCHANGED <<avlVars, docVars, xfVars, sndVars, exVars, cVars, wVars,
                                            fnVars>>
SpecStrip == InitStrip /\ [][NextStrip]_vars

CRest == UNCHANGED <<avlVars, docVars, xfVars, sndVars, exVars, stVars, wVars, fnVars>>
InitConcurrent ==
    AvlInit /\ DocIdle /\ XfIdle /\ SndIdle /\ ExIdle /\ StIdle /\ CInit /\ WIdle /\ FnIdle
NextConcurrent ==
    \/ \E p \in Callers : CWriteGeometry(p) /\ CRest
    \/ \E p \in Callers : CWriteMass(p) /\ CRest
    \/ \E p \in Callers : CRunAvl(p) /\ CRest
    \/ \E p \in Callers : CCommunicate(p) /\ CRest
    \/ \E p \in Callers : CReadResults(p) /\ CRest
    \/ \E p \in Callers : CRemoveGeometry(p) /\ CRest
    \/ \E p \in Callers : CRemoveMass(p) /\ CRest
    \/ \E p \in Callers : CRemoveResults(p) /\ CRest
SpecConcurrent == InitConcurrent /\ [][NextConcurrent]_vars

InitChord ==
    AvlInit /\ DocIdle /\ XfIdle /\ SndIdle /\ ExIdle /\ StIdle /\ CIdle /\ WInit /\ FnIdle
NextChord ==
    ChordDistribution
        /\ UNCHANGED <<avlVars, docVars, xfVars, sndVars, exVars, stVars, cVars, fnVars>>
SpecChord == InitChord /\ [][NextChord]_vars

\* Everything but the pure functions of the last sections, as constructed.
OthersIdle ==
    AvlInit /\ DocIdle /\ XfIdle /\ SndIdle /\ ExIdle /\ StIdle /\ CIdle /\ WIdle
OthersUnchanged ==
    UNCHANGED <<avlVars, docVars, xfVars, sndVars, exVars, stVars, cVars, wVars>>

InitPlanform == OthersIdle /\ PInit /\ RIdle /\ NIdle /\ AIdle
NextPlanform ==
    \/ PlanformArea /\ OthersUnchanged /\ UNCHANGED <<rVars, nVars, aVars>>
    \/ MeanGeometricChord /\ OthersUnchanged /\ UNCHANGED <<rVars, nVars, aVars>>
    \/ WingToAvl /\ OthersUnchanged /\ UNCHANGED <<rVars, nVars, aVars>>
    \/ HeaderFromWing /\ OthersUnchanged /\ UNCHANGED <<rVars, nVars, aVars>>
SpecPlanform == InitPlanform /\ [][NextPlanform]_vars

InitBlocks == OthersIdle /\ PIdle /\ RInit /\ NIdle /\ AIdle
NextBlocks == RenderBlocks /\ OthersUnchanged /\ UNCHANGED <<pVars, nVars, aVars>>
SpecBlocks == InitBlocks /\ [][NextBlocks]_vars

InitNumbers == OthersIdle /\ PIdle /\ RIdle /\ NInit /\ AIdle
NextNumbers == RenderNumbers /\ OthersUnchanged /\ UNCHANGED <<pVars, rVars, aVars>>
SpecNumbers == InitNumbers /\ [][NextNumbers]_vars

InitSweep == OthersIdle /\ PIdle /\ RIdle /\ NIdle /\ AInit
NextSweep == BuildSweep /\ OthersUnchanged /\ UNCHANGED <<pVars, rVars, nVars>>
SpecSweep == InitSweep /\ [][NextSweep]_vars

\* ======================================================================
\* Claims
\* ======================================================================
BatchOps == {"coefficients", "distribution"}

\* A batch call has ended.
BatchEnded == pc = "idle" /\ op \in BatchOps /\ outcome.status # "none"

NoAvlScratch == geoFile = "absent" /\ massFile = "absent" /\ ~resFile.exists

\* The positions of a batch call before both scratch files are written.
BuildSteps == {"from_wing", "write_geometry", "mass_from_wing", "write_mass"}

\* C1: whenever a batch call ends after it has written its scratch files (by returning
\* or by raising at any later step), input.avl, input.mass and result.txt are all gone.
C1_ScratchRemovedOnEveryExit ==
    (BatchEnded /\ outcome.at \notin BuildSteps) => NoAvlScratch

\* C2: a batch call whose solver process exited without writing result.txt ends by
\* raising and returns no table.
C2_NoTableWithoutResults ==
    (BatchEnded /\ exitStatus # "none" /\ ~solverWrote)
        => (outcome.status = "raised" /\ table = <<>>)

C2_Witness ==
    /\ BatchEnded
    /\ exitStatus # "none"
    /\ ~solverWrote
    /\ outcome = [status |-> "raised", error |-> "FileNotFoundError", at |-> "read_results"]

\* C3: once the solver process has exited abnormally, run_avl has raised to its caller:
\* the call is over with an error, and no table is built from that run.
C3_AbnormalExitReported ==
    exitStatus = "abnormal" => (pc = "idle" /\ outcome.status = "raised")

AllXfoilReturned == \A i \in 1..Len(xfResults) : xfResults[i] = "returned"

\* C4: after a batch call has returned a table none of input.avl, input.mass and the AVL
\* result.txt exists; after an XFOIL call has returned a table the XFOIL result.txt does
\* not exist; and while no call has raised, no scratch file exists between calls.
C4_NoScratchAfterReturn ==
    /\ (BatchEnded /\ outcome.status = "returned") => NoAvlScratch
    /\ (xfResults # <<>> /\ xfResults[Len(xfResults)] = "returned") => ~xfFile
    /\ (pc = "idle" /\ ~raised /\ AllXfoilReturned) => (NoAvlScratch /\ ~xfFile)

C4_Witness ==
    /\ BatchEnded
    /\ outcome.status = "returned"
    /\ table # <<>>
    /\ solverWrote
    /\ xfResults = <<"returned">>
    /\ ~raised

\* C5: run_avl reached while input.avl does not exist raises FileNotFoundError and
\* spawns nothing; a solver process is spawned only in a state where input.avl exists.
C5_RunAvlNeedsGeometry ==
    [][/\ (pc = "run_avl" /\ geoFile = "absent")
            => /\ outcome' = [status |-> "raised", error |-> "FileNotFoundError",
                              at |-> "run_avl"]
               /\ spawned' = spawned
               /\ proc' = proc
       /\ (spawned' > spawned \/ (proc # "running" /\ proc' = "running"))
            => geoFile # "absent"]_vars

C5_Witness ==
    /\ pc = "idle"
    /\ op = "run_avl"
    /\ geoFile = "absent"
    /\ outcome = [status |-> "raised", error |-> "FileNotFoundError", at |-> "run_avl"]
    /\ spawned = 0

\* C6: a batch call that raised while building or rendering one of the two documents
\* has spawned no solver process and has created no scratch file.
C6_BuildFailureLeavesNothing ==
    (BatchEnded /\ outcome.status = "raised" /\ outcome.at \in BuildSteps)
        => (spawned = 0 /\ touched = {})

\* Some surface or body is mirrored without a mirror-plane location.
MirrorWithoutPlane(d) ==
    \/ \E i \in 1..Len(d.surface_array) :
          d.surface_array[i].mirror_surface /\ d.surface_array[i].xz_plane_location = None
    \/ \E i \in 1..Len(d.body_array) :
          d.body_array[i].mirror_surface /\ d.body_array[i].xz_plane_location = None

\* C7: to_avl(file) on a document with a mirrored surface or body that has no
\* mirror-plane location raises ValueError and has written nothing to the file.
C7_MirrorErrorWritesNothing ==
    (docOutcome.status # "none" /\ MirrorWithoutPlane(doc))
        => /\ docOutcome.status = "raised"
           /\ docOutcome.error = "ValueError"
           /\ fileBuf = <<>>

\* The second surface is the offending one; the header and a valid surface precede it.
C7_Witness ==
    /\ fileArg = "file"
    /\ docOutcome.status = "raised"
    /\ Len(doc.surface_array) >= 2
    /\ ~doc.surface_array[1].mirror_surface
    /\ doc.surface_array[2].mirror_surface
    /\ doc.surface_array[2].xz_plane_location = None

\* The script of the current polar-sweep call has been built.
SweepScriptBuilt == op = "coefficients" /\ commands # <<>> /\ Len(alpha) >= 1

SetAngle(i) == CmdArg("A A", alpha[i])

\* The script with its empty lines left out.
RECURSIVE NonBlank(_)
NonBlank(cmds) ==
    IF cmds = <<>> THEN <<>>
    ELSE (IF Head(cmds).c = "" THEN <<>> ELSE <<Head(cmds)>>) \o NonBlank(Tail(cmds))

DistributionScriptBuilt == op = "distribution" /\ commands # <<>>

\* A command that asks the solver for a report: anything but a menu, setting, execute,
\* answer or quit line.
ReportRequests(cmds) ==
    {j \in 1..Len(cmds) :
        cmds[j].c \notin {"OPER", "A A", "X", "C1", "B", "A", "", "QUIT"}}

\* C9 as stated: the single-condition script requests two distinct report sections.
C9_TwoReportRequests ==
    DistributionScriptBuilt =>
        \E j, k \in ReportRequests(commands) : commands[j].c # commands[k].c

\* C9 amended: the single-condition script is, for every wing, OPER, set angle,
\* execute, C1, set bank angle, empty line, execute, one strip-forces request (FS) into
\* result.txt, empty line, QUIT; it holds one set-angle command and one report request.
C9_FixedScriptOneReport ==
    DistributionScriptBuilt =>
        /\ [j \in 1..Len(commands) |-> commands[j].c] =
              <<"OPER", "A A", "X", "C1", "B", "", "X", "FS result.txt", "", "QUIT">>
        /\ commands[2].a = Some(alpha[1])
        /\ commands[5].a # None
        /\ Cardinality(ReportRequests(commands)) = 1

C9_Witness == DistributionScriptBuilt /\ pc = "communicate" /\ proc = "running"

\* Positions of a command in one call's commands.
Where(cmds, c) == {j \in 1..Len(cmds) : cmds[j].c = c}

\* C10: in a session with a Reynolds number, while every call so far has returned, the
\* first call wrote VISC directly after OPER (and ITER directly after VISC when an
\* iteration cap is set, and not otherwise), all before the first PACC, and no later
\* call wrote VISC or ITER.
C10_ViscousOnlyInFirstCall ==
    (xfReynolds # None /\ AllXfoilReturned) =>
        \A k \in 1..Len(xfSent) :
            LET cmds == xfSent[k] IN
            IF k = 1
            THEN /\ \E o \in Where(cmds, "OPER") :
                      /\ Where(cmds, "VISC") = {o + 1}
                      /\ cmds[o + 1].a = xfReynolds
                      /\ IF xfIterations # None
                         THEN /\ Where(cmds, "ITER") = {o + 2}
                              /\ cmds[o + 2].a = xfIterations
                              /\ cmds[o + 3].c = "PACC"
                         ELSE /\ Where(cmds, "ITER") = {}
                              /\ cmds[o + 2].c = "PACC"
                 /\ \A v \in Where(cmds, "VISC") \cup Where(cmds, "ITER") :
                      \A q \in Where(cmds, "PACC") : v < q
            ELSE Where(cmds, "VISC") = {} /\ Where(cmds, "ITER") = {}

C10_Witness ==
    /\ xfReynolds # None
    /\ xfIterations # None
    /\ Len(xfSent) >= 2
    /\ AllXfoilReturned

\* The prompt tokens in a string of pieces that the solver emitted for command k.
PromptsFor(out, k) == {i \in Prompts(out) : out[i].of = k /\ out[i + 1].of = k}

\* C11: every __send_command that has returned read, since its write, a prompt token
\* the solver emitted in answer to that very command; a prompt emitted earlier (at
\* start-up or for an earlier command) never ends the wait.
C11_PromptAnswersCommand ==
    \A j \in 1..Len(sndLog) : PromptsFor(sndLog[j].out, sndLog[j].cmd) # {}

\* Every command the session has written to its solver process, in order.
RECURSIVE Flatten(_)
Flatten(ss) == IF ss = <<>> THEN <<>> ELSE Head(ss) \o Flatten(Tail(ss))

\* C12: once the client has dropped an interactive session, the last command written
\* to the session's solver process is a quit command.
C12_QuitBeforeDiscard ==
    ~xfAlive => LET sent == Flatten(xfSent) IN
                sent # <<>> /\ sent[Len(sent)].c = "QUIT"

\* get_wing_coefficients has returned a table.
PolarReturned ==
    pc = "idle" /\ op = "coefficients" /\ outcome.status = "returned"

\* C13: a table returned by get_wing_coefficients has exactly one row per requested
\* angle.
C13_OneRowPerAngle ==
    PolarReturned => Len(table) = Len(alpha)

\* C14: the rows of a table returned by get_wing_coefficients are in non-decreasing
\* angle-of-attack order.
C14_RowsSortedByAlpha ==
    PolarReturned =>
        \A i, j \in 1..Len(table) : i < j => table[i].alpha.alpha <= table[j].alpha.alpha

\* C15: for a file of k well-formed blocks (fields in the order of the pattern, other
\* text between them) the extraction yields exactly k rows in file order, and row i
\* holds the angle, lift, drag and moment fields of block i.
C15_OneRowPerBlockInFileOrder ==
    (exDone /\ \A i \in 1..Len(exBlocks) : exBlocks[i].shape = "ok") =>
        /\ Len(exRows) = Len(exBlocks)
        /\ \A i \in 1..Len(exRows) :
              /\ exRows[i].alpha = Token("Alpha", "num", i, exBlocks[i].a)
              /\ exRows[i].lift_coefficient = Token("CLtot", "num", i, exBlocks[i].a)
              /\ exRows[i].drag_coefficient = Token("CDtot", "num", i, exBlocks[i].a)
              /\ exRows[i].moment_coefficient = Token("Cmtot", "num", i, exBlocks[i].a)

\* Three blocks at -5, 0, 5 with other text around every field.
C15_Witness ==
    /\ exDone
    /\ Len(exBlocks) = 3
    /\ [i \in 1..3 |-> exBlocks[i].a] = <<-5, 0, 5>>
    /\ \A i \in 1..3 : exBlocks[i].filler /\ exBlocks[i].shape = "ok"
    /\ [i \in 1..3 |-> exRows[i].alpha.alpha] = <<-5, 0, 5>>

\* The rows of the report's two tables, as they stand in the report.
ReportRows(r) ==
    [i \in 1..(Len(r.t1) + Len(r.t2)) |->
        LET row == IF i <= Len(r.t1) THEN r.t1[i] ELSE r.t2[i - Len(r.t1)]
        IN [spanwise_location |-> row.yle, lift_coefficient |-> row.cl]]

Count(rows, row) == Cardinality({i \in 1..Len(rows) : rows[i] = row})

\* C16: the table returned for a well-formed report holds exactly the rows of both
\* sub-tables, every row as often as the report holds it and every lift value with its
\* own spanwise location, in non-decreasing order of spanwise location.
C16_AllRowsSortedBySpan ==
    (stOutcome.status = "returned" /\ WellFormed(stReport)) =>
        LET t == stOutcome.table
            src == ReportRows(stReport)
        IN /\ Len(t) = Len(src)
           /\ \A i \in 1..Len(src) : Count(t, src[i]) = Count(src, src[i])
           /\ \A i, j \in 1..Len(t) :
                 i < j => t[i].spanwise_location <= t[j].spanwise_location

\* Two unsorted sub-tables over the same range of locations, with different lift
\* values at equal locations.
C16_Witness ==
    /\ stOutcome.status = "returned"
    /\ WellFormed(stReport)
    /\ stReport.t1 = <<[yle |-> 1, cl |-> 0], [yle |-> 0, cl |-> 1]>>
    /\ stReport.t2 = <<[yle |-> 1, cl |-> 1], [yle |-> 0, cl |-> 0]>>

\* Offsets directly after an occurrence of the header phrase.
AfterHeader(text) ==
    {i + Len(TableHeader) : i \in {q \in 0..(Len(text) - Len(TableHeader)) :
        \A j \in 1..Len(TableHeader) : text[q + j] = TableHeader[j]}}

HeaderCount(r) == (IF r.h1 THEN 1 ELSE 0) + (IF r.h2 THEN 1 ELSE 0)

\* C17: a report with fewer than two header phrases, or without a table terminator,
\* makes the parse raise; and whenever tables are parsed, each table's start offset
\* lies directly after an occurrence of the header phrase and the second table starts
\* after the end of the first.
C17_BoundsOnlyFromFoundHeaders ==
    stOutcome.status # "none" =>
        LET b == stOutcome.bounds[1]
            starts == AfterHeader(Content(stReport))
        IN /\ (HeaderCount(stReport) < 2 \/ ~stReport.end1 \/ ~stReport.end2)
                 => stOutcome.status = "raised"
           /\ stOutcome.status = "returned"
                 => /\ b.first_table_start \in starts
                    /\ b.second_table_start \in starts
                    /\ b.second_table_start > b.first_table_end

\* The ways one call is corrupted by the other.
RanOnForeign(p) == cGeo[p] \notin {0, p}
ParsedForeign(p) == \E t \in cRead[p] : t # Own(p)
LostFile(p) == cOut[p] = "FileNotFoundError"
Corrupted(p) == RanOnForeign(p) \/ ParsedForeign(p) \/ LostFile(p)

\* C18: two calls in one working directory use the same three scratch paths, and a
\* call is corrupted only once the other call has started: while the other has not
\* started, it runs on its own geometry, parses its own results and loses no file.
C18_SharedScratchPaths ==
    /\ \A f \in FileNames : \A p, q \in Callers : ScratchPath(p, f) = ScratchPath(q, f)
    /\ \A p, q \in Callers : (p # q /\ cPc[q] = "start") => ~Corrupted(p)

\* The interleaving the claim speaks of: one call has run the solver on the other's
\* geometry and parsed results that are not its own, and the other call has failed
\* because a scratch file was already deleted.
C18_Witness ==
    \E p, q \in Callers :
        /\ p # q
        /\ RanOnForeign(p)
        /\ ParsedForeign(p)
        /\ cOut[p] = "returned"
        /\ LostFile(q)

\* C19: nothing but the solver ends a wait.  A __send_command leaves its read loop
\* only with a prompt token in the output it has read, and while the solver has
\* emitted nothing it stays in the loop with its output unchanged; run_avl leaves
\* communicate() only when the solver process has exited.
C19_NoTimeout ==
    [][/\ (sndPc = "reading" /\ sndPc' # "reading") => Prompts(sndOutput') # {}
       /\ (sndPc = "reading" /\ pty = <<>> /\ pty' = <<>>)
            => (sndPc' = "reading" /\ sndOutput' = sndOutput)
       /\ (pc = "communicate" /\ pc' # "communicate")
            => (proc = "running" /\ proc' = "exited")]_vars

\* Both waits at once: the solver has answered the command before, nothing is pending,
\* and the current command has no prompt yet; and a batch solver process has not exited.
C19_Witness ==
    /\ sndPc = "reading"
    /\ sndCount >= 2
    /\ pty = <<>>
    /\ Prompts(sndOutput) = {}
    /\ sndOutput # <<>>
    /\ pc = "communicate"
    /\ proc = "running"

SameValue(a, b) == a.num * b.den = b.num * a.den

\* Every reordering of a section array.
Reorderings(secs) ==
    {[i \in 1..Len(secs) |-> secs[f[i]]] :
        f \in {g \in [1..Len(secs) -> 1..Len(secs)] :
                  \A i, j \in 1..Len(secs) : i # j => g[i] # g[j]}}

\* C20: chord_distribution(y) is the same for every permutation of section_array; at
\* the spanwise coordinate of a section it is that section's chord; below the smallest
\* and above the largest section coordinate it is the chord of an end section there.
C20_ChordAtSectionsAnyOrder ==
    wResult # <<>> =>
        LET v == wResult[1]
            n == Len(wSections)
            lo == CHOOSE y \in SectionYs :
                    /\ \E i \in 1..n : wSections[i].y = y
                    /\ \A i \in 1..n : y <= wSections[i].y
            hi == CHOOSE y \in SectionYs :
                    /\ \E i \in 1..n : wSections[i].y = y
                    /\ \A i \in 1..n : y >= wSections[i].y
        IN /\ \A q \in Reorderings(wSections) : SameValue(chord_distribution(q, wY), v)
           /\ \A i \in 1..n : wSections[i].y = wY => SameValue(v, Frac(wSections[i].chord, 1))
           /\ wY < lo => \E i \in 1..n :
                            wSections[i].y = lo /\ SameValue(v, Frac(wSections[i].chord, 1))
           /\ wY > hi => \E i \in 1..n :
                            wSections[i].y = hi /\ SameValue(v, Frac(wSections[i].chord, 1))

\* ----------------------------------------------------------------------
\* C21: for every two-section wing with both sections at spanwise position 0, whatever
\* the chords and the x positions, planform_area() returns 0 and the mean chord
\* returns 0, and neither raises.
BothAtRoot ==
    /\ Len(pSections) = 2
    /\ \A i \in 1..2 : pSections[i].y = 0

C21_DegenerateWingIsZero ==
    BothAtRoot =>
        /\ pArea.status # "none" => pArea = Returned(Number(0))
        /\ pMean.status # "none" => pMean = Returned(Number(0))

\* ----------------------------------------------------------------------
\* C22: with fewer than two sections, planform_area(), the mean-chord query and
\* Wing.to_avl each end by raising.
C22_FewSectionsRejected ==
    Len(pSections) < 2 =>
        /\ pArea.status # "none" => pArea.status = "raised"
        /\ pMean.status # "none" => pMean.status = "raised"
        /\ pAvl.status # "none" => pAvl.status = "raised"

\* ----------------------------------------------------------------------
\* C25: for any wing and any storage order of its sections, the header of from_wing
\* has its moment reference point at (0.25 * chord of the section with the smallest
\* spanwise coordinate, 0, 0) and its reference span equal to wing.span().
RootChords ==
    {pSections[i].chord : i \in {j \in 1..Len(pSections) :
                                    \A k \in 1..Len(pSections) : pSections[j].y <= pSections[k].y}}

C25_HeaderFromRootSection ==
    (pHeader # <<>> /\ pSections # <<>>) =>
        /\ \E c \in RootChords : pHeader[1].xref = Frac(c, 4)
        /\ pHeader[1].yref = 0 /\ pHeader[1].zref = 0
        /\ pHeader[1].bref = span(pSections)

\* ----------------------------------------------------------------------
\* C23: in the rendered geometry document each optional block appears exactly when its
\* configuration value is present (header CDp; surface and body YDUPLICATE exactly
\* when mirror_surface, SCALE, TRANSLATE; surface ANGLE, NOWAKE, NOALBE, NOLOAD, CDCL;
\* section CLAF, CDCL), nothing stands in for an absent value, and the blocks come in
\* the order header, each surface's own blocks then its sections in list order, each
\* section followed by its controls, then the bodies.
Configured(e, kw) ==
    CASE kw = "YDUPLICATE" -> e.mirror_surface
      [] kw = "SCALE" -> e.scale # None
      [] kw = "TRANSLATE" -> e.translate # None
      [] kw = "ANGLE" -> e.incremental_angle # None
      [] kw = "NOWAKE" -> e.ignore_wake
      [] kw = "NOALBE" -> e.ignore_freestream_effect
      [] kw = "NOLOAD" -> e.ignore_load_contribution
      [] kw = "CDCL" -> e.profile_drag_settings # None
      [] kw = "CLAF" -> e.cl_alpha_slope_scaling # None
      [] kw = "CDp" -> e.default_profile_drag_coefficient # None

\* How often the element at (r, i, j, k) wrote the keyword kw.
Written(kw, r, i, j, k) ==
    Cardinality({n \in 1..Len(rText) :
                    rText[n] = [kw |-> kw, r |-> r, i |-> i, j |-> j, k |-> k]})

Once(b) == IF b THEN 1 ELSE 0

\* The lines of the element at (r, i, j, k) are the fixed ones and the optional ones.
OnlyFrom(r, i, j, k, kws) ==
    \A n \in 1..Len(rText) :
        (rText[n].r = r /\ rText[n].i = i /\ rText[n].j = j /\ rText[n].k = k)
            => rText[n].kw \in kws

BlocksAsConfigured ==
    /\ Written("HEADER", 0, 0, 0, 0) = 1
    /\ Written("CDp", 0, 0, 0, 0) = Once(Configured(rDoc.header, "CDp"))
    /\ OnlyFrom(0, 0, 0, 0, {"HEADER", "CDp"})
    /\ \A i \in 1..Len(rDoc.surface_array) :
        LET sf == rDoc.surface_array[i]
        IN /\ Written("SURFACE", 1, i, 0, 0) = 1
           /\ \A kw \in SurfaceOptions : Written(kw, 1, i, 0, 0) = Once(Configured(sf, kw))
           /\ OnlyFrom(1, i, 0, 0, {"SURFACE"} \cup SurfaceOptions)
           /\ \A j \in 1..Len(sf.section_array) :
                LET sec == sf.section_array[j]
                IN /\ Written("SECTION", 1, i, j, 0) = 1
                   /\ Written("AFILE", 1, i, j, 0) = 1
                   /\ \A kw \in {"CLAF", "CDCL"} :
                        Written(kw, 1, i, j, 0) = Once(Configured(sec, kw))
                   /\ OnlyFrom(1, i, j, 0, {"SECTION", "AFILE", "CLAF", "CDCL"})
                   /\ \A k \in 1..Len(sec.control_array) :
                        /\ Written("CONTROL", 1, i, j, k) = 1
                        /\ OnlyFrom(1, i, j, k, {"CONTROL"})
    /\ \A i \in 1..Len(rDoc.body_array) :
        /\ Written("BODY", 2, i, 0, 0) = 1
        /\ \A kw \in BodyOptions :
             Written(kw, 2, i, 0, 0) = Once(Configured(rDoc.body_array[i], kw))
        /\ OnlyFrom(2, i, 0, 0, {"BODY"} \cup BodyOptions)

\* The element of line m comes before the element of line n, or is the same one.
NotAfter(a, b) ==
    \/ a.r < b.r
    \/ a.r = b.r /\ a.i < b.i
    \/ a.r = b.r /\ a.i = b.i /\ a.j < b.j
    \/ a.r = b.r /\ a.i = b.i /\ a.j = b.j /\ a.k <= b.k

\* The line that names an element is the first line of the element.
Opens(t) == t.kw \in {"HEADER", "SURFACE", "SECTION", "CONTROL", "BODY"}

BlocksInOrder ==
    /\ \A n \in 1..(Len(rText) - 1) : NotAfter(rText[n], rText[n + 1])
    /\ \A n \in 1..Len(rText) :
        Opens(rText[n]) <=>
            (n = 1 \/ rText[n - 1].r # rText[n].r \/ rText[n - 1].i # rText[n].i
                \/ rText[n - 1].j # rText[n].j \/ rText[n - 1].k # rText[n].k)
    /\ \A n \in 1..Len(rText) :
        /\ rText[n].r = 1 => rText[n].i \in 1..Len(rDoc.surface_array)
        /\ (rText[n].r = 1 /\ rText[n].j > 0) =>
              rText[n].j \in 1..Len(rDoc.surface_array[rText[n].i].section_array)
        /\ rText[n].r = 2 => rText[n].i \in 1..Len(rDoc.body_array)

C23_OptionalBlocksAndOrder ==
    rText # <<>> => (BlocksAsConfigured /\ BlocksInOrder)

C23_Witness ==
    /\ rText # <<>>
    /\ Len(rDoc.surface_array) = 2
    /\ \E j \in 1..Len(rDoc.surface_array[1].section_array) :
        LET sec == rDoc.surface_array[1].section_array[j]
        IN sec.cl_alpha_slope_scaling = None /\ sec.profile_drag_settings # None
              /\ sec.control_array # <<>>
    /\ Len(rDoc.surface_array[1].section_array) = 2
    /\ rDoc.surface_array[1].mirror_surface
    /\ rDoc.surface_array[1].incremental_angle # None
    /\ rDoc.body_array # <<>>

\* ----------------------------------------------------------------------
\* C24: every numeric field the geometry and mass serializers write has a fractional
\* part, also for a supplied integer: coordinates, chords and angles, the vortex and
\* node counts, the symmetry and deflection flags, and the g and rho lines.
PlainInteger == [type |-> "int", mag |-> "plain"]

C24_EveryFieldHasFraction ==
    (nFields # <<>> /\ nSupplied.geometry.mag = "plain" /\ nSupplied.mass.mag = "plain"
        /\ (nSupplied.g # <<>> => nSupplied.g[1].mag = "plain")
        /\ (nSupplied.rho # <<>> => nSupplied.rho[1].mag = "plain"))
        => \A f \in NumericFields : nFields[f] \in {"decimal", "absent"}

\* C24 as amended: the float-typed fields are written through float(), so a supplied
\* integer is written like the equal float, with a fractional part (in exponent
\* notation outside 1e-4 <= |v| < 1e16); the counts and flags are written as plain
\* integers; the g and rho lines, written through round(v, 3), have a fractional part
\* exactly when the supplied value is a float.
C24_FloatFieldsHaveFraction ==
    nFields # <<>> =>
        /\ \A f \in FloatFields :
            nFields[f] = IF nSupplied.geometry.mag = "plain" THEN "decimal" ELSE "exponent"
        /\ \A f \in MassFloatFields :
            nFields[f] = IF nSupplied.mass.mag = "plain" THEN "decimal" ELSE "exponent"
        /\ \A f \in IntFields : nFields[f] = "integer"
        /\ nSupplied.g # <<>> =>
            (nFields["g"] = "integer" <=> nSupplied.g[1].type = "int")
        /\ nSupplied.rho # <<>> =>
            (nFields["rho"] = "integer" <=> nSupplied.rho[1].type = "int")
        /\ nSupplied.g = <<>> <=> nFields["g"] = "absent"
        /\ nSupplied.rho = <<>> <=> nFields["rho"] = "absent"

C24_Witness ==
    /\ nFields # <<>>
    /\ nSupplied.geometry = PlainInteger
    /\ nSupplied.mass = PlainInteger
    /\ nSupplied.g = <<PlainInteger>>
    /\ nSupplied.rho # <<>> /\ nSupplied.rho[1].type = "float"

\* ----------------------------------------------------------------------
\* C26: for alpha given as (start, end, increment) with increment > 0, the angles of
\* the command script are exactly start, start + increment, ... up to and including
\* the last value not greater than end; no scripted angle exceeds end.
SweepAngles ==
    LET at == {i \in 1..Len(aCommands) : aCommands[i].c = "A A"}
        Nth(k) == CHOOSE i \in at : Cardinality({j \in at : j < i}) = k - 1
    IN [k \in 1..Cardinality(at) |-> aCommands[Nth(k)].a[1]]

C26_SweepStopsAtEnd ==
    aCommands # <<>> =>
        /\ \A k \in 1..Len(SweepAngles) :
            /\ SweepAngles[k] = aTuple.start + (k - 1) * aTuple.inc
            /\ SweepAngles[k] <= aTuple.end
        /\ aTuple.start + Len(SweepAngles) * aTuple.inc > aTuple.end

\* ----------------------------------------------------------------------
\* C27: within one batch call the steps come in this order, each once and without
\* retry: the geometry and mass documents are written and closed; one solver process
\* is spawned and given the whole script; the driver waits for its exit; only then is
\* the results file read; the scratch files are deleted only after that read.
BatchCall == op \in {"coefficients", "distribution"}

Rank(p) ==
    CASE p = "from_wing" -> 1
      [] p = "write_geometry" -> 2
      [] p = "mass_from_wing" -> 3
      [] p = "write_mass" -> 4
      [] p = "build_commands" -> 5
      [] p = "run_avl" -> 6
      [] p = "communicate" -> 7
      [] p = "read_results" -> 8
      [] p = "extract" -> 9
      [] p = "remove" -> 10
      [] p = "validate" -> 11

Deletes ==
    \/ geoFile # "absent" /\ geoFile' = "absent"
    \/ massFile # "absent" /\ massFile' = "absent"
    \/ resFile.exists /\ ~resFile'.exists

BatchStepsInOrder ==
    (BatchCall /\ pc # "idle") =>
        \* no step is taken twice
        /\ pc' # "idle" => Rank(pc') > Rank(pc)
        \* the documents are complete, and written by this call, when the one process
        \* is spawned with the finished script
        /\ spawned' # spawned =>
            /\ spawned = 0 /\ spawned' = 1
            /\ geoFile = "complete" /\ massFile = "complete"
            /\ {"geo", "mass"} \subseteq touched
            /\ commands # <<>> /\ commands' = commands
        \* the solver writes only while the driver is inside communicate()
        /\ solverWrote' # solverWrote => pc = "communicate" /\ proc = "running"
        \* the results file is read after the process has exited
        /\ pc = "read_results" => proc = "exited" /\ spawned = 1
        /\ content' # content => pc = "read_results"
        \* nothing is deleted before the results file has been read
        /\ Deletes => pc = "remove" /\ content.exists /\ proc = "exited"

C27_BatchStepsInOrder == [][BatchStepsInOrder]_vars

C27_Witness ==
    /\ BatchCall /\ pc = "idle"
    /\ outcome.status = "returned"
    /\ spawned = 1 /\ proc = "exited"
    /\ content.exists
    /\ geoFile = "absent" /\ massFile = "absent" /\ ~resFile.exists

\* ----------------------------------------------------------------------
\* C28: over any sequence of get_coefficients calls of one session, calls that raised
\* after their commands were sent included, VISC is written to the solver process at
\* most once.
C28_ViscousAtMostOnce ==
    LET sent == Flatten(xfSent)
    IN Cardinality({i \in 1..Len(sent) : sent[i].c = "VISC"}) <= 1

\* ----------------------------------------------------------------------
\* C29: over any sequence of batch calls in one working directory, calls that raised
\* included, no results file of an earlier call exists when a solver process is
\* spawned; hence a returned table holds no block of an earlier run.
RowTokens(row) ==
    {row.alpha, row.lift_coefficient, row.drag_coefficient, row.moment_coefficient}

C29_NoStaleResultsAtSpawn ==
    /\ (BatchCall /\ proc = "running") => ~resFile.exists
    /\ PolarReturned => \A k \in 1..Len(table) : \A t \in RowTokens(table[k]) : t.fresh

\* ----------------------------------------------------------------------
\* C30: in every row get_wing_coefficients extracts, the lift, drag and moment
\* coefficients come from the same report block as the row's angle of attack, also
\* when a block of the file is cut short or lacks one of the four fields.
C30_RowFromOneBlock ==
    exDone => \A k \in 1..Len(exRows) :
                \A t \in RowTokens(exRows[k]) : t.blk = exRows[k].alpha.blk
====
